---- MODULE Spec2Model ----
(***************************************************************************)
(* A model of the Neuclear kernel core: the pipe ring buffer, the process  *)
(* and thread lifecycle (fork / exit / wait4), the FIFO scheduler, the fd  *)
(* table and the fork copy of a user address space.                        *)
(*                                                                         *)
(* Kernel code runs on a single hart and is never preempted, so one action *)
(* of the model is the code a thread executes from the point it gets the   *)
(* CPU (or enters the kernel) up to its next scheduler call or return.     *)
(***************************************************************************)
EXTENDS Integers, Sequences, FiniteSets, TLC

VARIABLES
    \* ---- filesystem/src/pipe.rs : one pipe ----
    ring_buffer,    \* PipeRingBuffer {arr, head, tail, status}
    write_end,      \* strong count of the Arc<Pipe> behind PipeRingBuffer.write_end
    io,             \* per thread: the Pipe::read / Pipe::write call it is inside of
    ret,            \* what the last completed read / write returned
    accepted,       \* history: bytes stored by write_byte, in order
    delivered,      \* history: bytes handed out by read_byte, in order
    nextByte,       \* history: next fresh byte value a writer puts in its buffer
    \* ---- major/src/task : processes, threads, scheduler ----
    procs,          \* per process object: ProcessControlBlock {pid, inner}
    threads,        \* per process object: its main thread (tid 0)
    ready_queue,    \* TASK_MANAGER.ready_queue
    current,        \* PROCESSOR.current
    pid_allocator,  \* PID_ALLOCATOR {current, recycled}
    kstack_allocator, \* KSTACK_ALLOCATOR {current, recycled}
    sysret,         \* the syscall completed by the latest step, if any
    sched,          \* history: per thread, ready threads when it was enqueued
                    \* and dispatches of other threads since then
    exit_hist,      \* history: per process object, how it terminated
    \* ---- memory/src : address spaces and physical frames ----
    memory_set,     \* per process object: MemorySet {page_table, areas}
    frames,         \* per physical frame: is it allocated, and its bytes
    \* ---- file objects and user programs ----
    next_file,      \* identity of the next file object open_file creates
    file_flags,     \* per InodeFile object: InodeFileInner.flags
    open_hist,      \* history: per InodeFile object, the flags of its openat
    prog,           \* user memory of the scripted programs of scenario S2
    \* ---- drivers/src/block : block cache ----
    queue,          \* BLOCK_CACHE_MANAGER.queue: pairs (block id, slot object)
    slots,          \* per live slot object: BlockCache {cache, block_id, modified}
    handles,        \* per live slot object: Arc clones callers hold
    block_device,   \* per block id: the bytes of the block on the device
    bc_panic,       \* get_block_cache has panicked
    expected,       \* history: per block id, the bytes after every write so far
    dev_writes,     \* history: the block ids the latest operation gave to write_block
    \* ---- kernel/src/memory/page_table.rs : one page table ----
    ptable,         \* PageTable {root_ppn, frames} and the pages of its nodes
    ptable_ret,     \* the latest map / unmap / translate call and its outcome
    \* ---- major/src/task/time.rs, utils/time.rs : sleep timers ----
    timers,         \* TIMERS: the TimerCondVar {expire_ms, thread} in the heap
    now,            \* get_time_ms(): milliseconds since boot
    next_trigger,   \* the time set_timer armed the next timer interrupt for
    sleep_hist,     \* history: per thread that sleeps, or was woken and did not
                    \* leave the CPU since, its deadline and its wake pass
    \* ---- UPSafeCell borrows of tcb_inner / pcb_inner ----
    borrowed,       \* the inner cells borrowed now, in the order they were taken
    kpath           \* the kernel function running: its borrows and drops, and
                    \* how far it has come

pipeVars == <<ring_buffer, write_end, io, ret, accepted, delivered, nextByte>>

\* the pipe without the reference count of its write end
pipeRest == <<ring_buffer, io, ret, accepted, delivered, nextByte>>

procVars == <<procs, threads, ready_queue, current, pid_allocator, kstack_allocator, sysret,
              sched, exit_hist>>

memVars == <<memory_set, frames>>

inodeVars == <<next_file, file_flags, open_hist>>

cacheVars == <<queue, slots, handles, block_device, bc_panic, expected,
               dev_writes>>

ptVars == <<ptable, ptable_ret>>

\* the components modelled on their own, apart from the block cache
cellVars == <<borrowed, kpath>>

lateVars == <<ptVars, now, cellVars>>

\* what a timer interrupt and sys_sleep change besides the scheduler
timerVars == <<timers, next_trigger, sleep_hist>>

deviceVars == <<cacheVars, lateVars, timerVars>>

fileVars == <<inodeVars, deviceVars>>

vars == <<ring_buffer, write_end, io, ret, accepted, delivered, nextByte,
          procs, threads, ready_queue, current, pid_allocator, kstack_allocator, sysret,
          sched, exit_hist, memory_set, frames, next_file, file_flags,
          open_hist, prog,
          queue, slots, handles, block_device, bc_panic, expected, dev_writes,
          ptable, ptable_ret, timers, now, next_trigger, sleep_hist,
          borrowed, kpath>>

-----------------------------------------------------------------------------
(* Bounds of the model *)

\* number of threads that call write on the pipe (one more thread reads it)
NWriters == 2
\* total number of bytes the writers may hand to the pipe
MaxBytes == 33
\* largest number of descriptors referring to the write end
MaxWriteFds == 2

-----------------------------------------------------------------------------
(* filesystem/src/pipe.rs *)

RING_BUFFER_SIZE == 32

Writers == 1..NWriters
Readers == {NWriters + 1}
PipeThreads == Writers \cup Readers

\* lengths of the user buffers handed to write / read
WriteLens == {1, RING_BUFFER_SIZE + 1}
ReadLens == {1, RING_BUFFER_SIZE + 2}

\* the element of a set of one element: Only({e(r) : r \in {x}}) is e(x),
\* with x worked out once
Only(S) == CHOOSE x \in S : TRUE

PipeRingBuffer_new ==
    [arr |-> [i \in 0..(RING_BUFFER_SIZE - 1) |-> 0],
     head |-> 0, tail |-> 0, status |-> "Empty"]

\* mutant: read_byte that forgets to set the status to Empty
read_byte_keeps_status(rb) ==
    [byte |-> rb.arr[rb.head],
     rb   |-> [rb EXCEPT !.head = (rb.head + 1) % RING_BUFFER_SIZE,
                         !.status = "Normal"]]

\* PipeRingBuffer::read_byte : the byte read and the buffer afterwards
read_byte(rb) ==
    LET h == (rb.head + 1) % RING_BUFFER_SIZE
    IN  [byte |-> rb.arr[rb.head],
         rb   |-> [rb EXCEPT !.head = h,
                             !.status = IF h = rb.tail THEN "Empty" ELSE "Normal"]]

\* PipeRingBuffer::write_byte
write_byte(rb, byte) ==
    LET t == (rb.tail + 1) % RING_BUFFER_SIZE
    IN  [rb EXCEPT !.arr[rb.tail] = byte,
                   !.tail = t,
                   !.status = IF rb.head = t THEN "Full" ELSE "Normal"]

available_read(rb) ==
    IF rb.status = "Empty" THEN 0
    ELSE IF rb.tail > rb.head THEN rb.tail - rb.head
    ELSE rb.tail + RING_BUFFER_SIZE - rb.head

\* mutant: a ring that always reports all of its slots free
available_write_whole(rb) == RING_BUFFER_SIZE

available_write(rb) == RING_BUFFER_SIZE - available_read(rb)

\* mutant: an empty ring counts as end of file whoever holds the write end
all_write_ends_closed_always(strong_count) == TRUE

\* PipeRingBuffer::all_write_ends_closed, given the strong count of the write end
all_write_ends_closed(strong_count) == strong_count = 0

\* One iteration of the `for _ in 0..loop_write` loop of Pipe::write.
\* it: what buf_iter still holds, ws: write_size. done: the function returned.
WriteIter(rb, it, ws) ==
    IF it # <<>>
    THEN [rb |-> write_byte(rb, Head(it)), it |-> Tail(it), size |-> ws + 1,
          done |-> FALSE]
    ELSE [rb |-> rb, it |-> it, size |-> ws, done |-> TRUE]

\* mutant: the for loop of Pipe::write returns when its iterations are used up
RECURSIVE WriteFor_returns_when_full(_, _, _, _)
WriteFor_returns_when_full(rb, it, ws, n) ==
    IF n = 0 THEN [rb |-> rb, it |-> it, size |-> ws, done |-> TRUE]
    ELSE IF n = 1 THEN [WriteIter(rb, it, ws) EXCEPT !.done = TRUE]
    ELSE LET r == WriteFor_returns_when_full(rb, it, ws, n \div 2)
         IN  IF r.it = <<>> THEN r
             ELSE WriteFor_returns_when_full(r.rb, r.it, r.size, n - (n \div 2))

\* The `for _ in 0..loop_write` loop of Pipe::write, with n iterations left:
\* the first n \div 2 iterations, then (unless they returned) the others.
RECURSIVE WriteFor(_, _, _, _)
WriteFor(rb, it, ws, n) ==
    IF n = 0 THEN [rb |-> rb, it |-> it, size |-> ws, done |-> FALSE]
    ELSE IF n = 1 THEN WriteIter(rb, it, ws)
    ELSE Only({IF r.done THEN r
               ELSE WriteFor(r.rb, r.it, r.size, n - (n \div 2)) :
                  r \in {WriteFor(rb, it, ws, n \div 2)}})

\* The outer `loop` of Pipe::write from its top up to the next
\* __suspend_curr_and_run_next (done = FALSE) or return (done = TRUE).
\* obs: the last value of loop_write the code computed.
RECURSIVE Pipe_write(_, _, _)
Pipe_write(rb, it, ws) ==
    LET loop_write == available_write(rb)
    IN  IF loop_write = 0
        THEN [rb |-> rb, it |-> it, size |-> ws, done |-> FALSE, obs |-> 0]
        ELSE Only({IF r.done
                   THEN [rb |-> r.rb, it |-> r.it, size |-> r.size,
                         done |-> TRUE, obs |-> loop_write]
                   ELSE Pipe_write(r.rb, r.it, r.size) :
                      r \in {WriteFor(rb, it, ws, loop_write)}})

\* One iteration of the `for _ in 0..available_read` loop of Pipe::read.
\* cap: the slots buf_iter still holds, got: the bytes stored into the user
\* buffer since the thread got the CPU, rs: read_size.
ReadIter(rb, cap, got, rs) ==
    IF cap > 0
    THEN LET r == read_byte(rb)
         IN  [rb |-> r.rb, cap |-> cap - 1, got |-> Append(got, r.byte),
              size |-> rs + 1, done |-> FALSE]
    ELSE [rb |-> rb, cap |-> cap, got |-> got, size |-> rs, done |-> TRUE]

\* mutant: the for loop of Pipe::read returns when its iterations are used up
RECURSIVE ReadFor_returns_when_empty(_, _, _, _, _)
ReadFor_returns_when_empty(rb, cap, got, rs, n) ==
    IF n = 0 THEN [rb |-> rb, cap |-> cap, got |-> got, size |-> rs, done |-> TRUE]
    ELSE IF n = 1 THEN [ReadIter(rb, cap, got, rs) EXCEPT !.done = TRUE]
    ELSE LET r == ReadFor_returns_when_empty(rb, cap, got, rs, n \div 2)
         IN  IF r.cap = 0 THEN r
             ELSE ReadFor_returns_when_empty(r.rb, r.cap, r.got, r.size,
                                             n - (n \div 2))

\* The `for _ in 0..available_read` loop of Pipe::read, with n iterations left:
\* the first n \div 2 iterations, then (unless they returned) the others.
RECURSIVE ReadFor(_, _, _, _, _)
ReadFor(rb, cap, got, rs, n) ==
    IF n = 0 THEN [rb |-> rb, cap |-> cap, got |-> got, size |-> rs, done |-> FALSE]
    ELSE IF n = 1 THEN ReadIter(rb, cap, got, rs)
    ELSE Only({IF r.done THEN r
               ELSE ReadFor(r.rb, r.cap, r.got, r.size, n - (n \div 2)) :
                  r \in {ReadFor(rb, cap, got, rs, n \div 2)}})

\* The outer `loop` of Pipe::read from its top up to the next suspend or return.
\* obs: the last available_read computed; closed: the value of
\* all_write_ends_closed() when the code evaluated it last (FALSE if it did not).
RECURSIVE Pipe_read(_, _, _, _, _)
Pipe_read(rb, cap, got, rs, strong_count) ==
    LET avail == available_read(rb)
    IN  IF avail = 0
        THEN [rb |-> rb, cap |-> cap, got |-> got, size |-> rs,
              done |-> all_write_ends_closed(strong_count), obs |-> 0,
              closed |-> all_write_ends_closed(strong_count)]
        ELSE Only({IF r.done
                   THEN [rb |-> r.rb, cap |-> r.cap, got |-> r.got,
                         size |-> r.size, done |-> TRUE, obs |-> avail,
                         closed |-> FALSE]
                   ELSE Pipe_read(r.rb, r.cap, r.got, r.size, strong_count) :
                      r \in {ReadFor(rb, cap, got, rs, avail)}})

-----------------------------------------------------------------------------
(* major/src/task : processes, threads, allocators *)

\* Option::None for an object id
NONE == -1
\* the process object of INITPROC; it holds pid 0 for ever
INITPROC == 0

\* RecycleAllocator::new
RecycleAllocator_new == [current |-> 0, recycled |-> <<>>]

\* a RecycleAllocator::alloc that forgets to advance current
RecycleAllocator_alloc_same(a) ==
    IF a.recycled # <<>>
    THEN [id |-> a.recycled[Len(a.recycled)],
          a  |-> [a EXCEPT !.recycled = SubSeq(@, 1, Len(@) - 1)]]
    ELSE [id |-> a.current, a |-> a]

\* RecycleAllocator::alloc : the id handed out and the allocator afterwards
RecycleAllocator_alloc(a) ==
    IF a.recycled # <<>>
    THEN [id |-> a.recycled[Len(a.recycled)],
          a  |-> [a EXCEPT !.recycled = SubSeq(@, 1, Len(@) - 1)]]
    ELSE [id |-> a.current, a |-> [a EXCEPT !.current = @ + 1]]

\* RecycleAllocator::dealloc (both assertions hold for an id handed out once)
RecycleAllocator_dealloc(a, id) == [a EXCEPT !.recycled = Append(@, id)]

\* pid_alloc : the next pid of PID_ALLOCATOR
pid_alloc(a) == RecycleAllocator_alloc(a)

\* Drop for PidHandle : the pid goes back to PID_ALLOCATOR
PidHandle_drop(a, pid) == RecycleAllocator_dealloc(a, pid)

\* kstack_alloc : the next kernel-stack id of KSTACK_ALLOCATOR
kstack_alloc(a) == RecycleAllocator_alloc(a)

\* Drop for KernelStack : the id goes back to KSTACK_ALLOCATOR
KernelStack_drop(a, kstack_id) == RecycleAllocator_dealloc(a, kstack_id)

\* file objects of the default fd table: Stdin, Stdout, Stdout
Stdin == 1
Stdout == 2
Stderr == 3
DefaultFdTable == <<Stdin, Stdout, Stderr>>

\* signal numbers (the signal crate's Signal) and the default action
SIGINT == 2
SIGKILL == 9
SIGSTOP == 19
SIG_DFL == 0
\* the signals whose action the programs of the model set
Signals == {SIGINT}

\* SignalHandlers::new, and what clear() leaves: the default action for
\* every signal
SignalHandlers_new == [s \in Signals |-> SIG_DFL]

\* a process object that does not exist (not yet created, or dropped)
NoProc(st) ==
    [state |-> st, pid |-> 0, parent |-> NONE, children |-> <<>>,
     is_zombie |-> FALSE, exit_code |-> 0, fd_table |-> <<>>,
     heap_start |-> 0, brk |-> 0, sig_handlers |-> SignalHandlers_new]

\* where a thread is inside the kernel while it does not have the CPU:
\* "user" = it returns to user mode when dispatched
UserCont == [pc |-> "user", pid |-> 0, wstatus |-> "null", options |-> 0]

\* TrapContext::app_init_context(entry, sp) with a0 = argc, as Loader::load
\* leaves the trap context of the main thread (sp and a1 depend on the
\* argument block init_stack pushes, which is not kept; the return value the
\* trap handler writes to a0 after a syscall is in sysret)
TrapContext_app_init_context(entry, argc) == [sepc |-> entry, x10 |-> argc]

\* ThreadControlBlock::new / from_existed : status Ready, no exit code, the
\* user resource Some(ThreadUserRes {tid: 0}) of a main thread, the kernel
\* stack it was given (<<>> where no thread object exists); the trap context
\* of a program started with its name as its only argument
NewThread(kernel_stack) ==
    [thread_status |-> "Ready", exit_code |-> <<>>, cont |-> UserCont,
     res |-> <<0>>, kernel_stack |-> kernel_stack,
     trap_ctx |-> TrapContext_app_init_context(0, 1)]

\* sysret when the latest step completed no syscall
NoSysRet ==
    [op |-> "none", caller |-> NONE, val |-> 0, err |-> "", pid |-> 0,
     options |-> 0, wstatus |-> "null", yielded |-> FALSE, child |-> NONE,
     status |-> <<>>, before |-> <<>>, exited |-> <<>>]

\* a syscall of process p that returned Ok(val) (err = "") or Err(err)
SysRet(op, p, val, err) ==
    [NoSysRet EXCEPT !.op = op, !.caller = p, !.val = val, !.err = err]

\* sched entry of a thread that was never enqueued
NoSched == [n |-> 0, others |-> 0]
\* sched.last after a step that dispatched no thread
NoDispatch == [thread |-> NONE, n |-> 0, others |-> 0]

\* exit_hist entry of a process that has not terminated
NotExited == [how |-> "running", arg |-> 0, returned |-> 0, orphans |-> <<>>]

\* file objects of the pipe made by make_pipe
PipeReadEnd == 4
PipeWriteEnd == 5
\* the first file object open_file creates
FirstInode == 6

\* MapPermission and PTEFlags bits
MapPermission_R == 2
MapPermission_W == 4
MapPermission_X == 8
MapPermission_U == 16
PTEFlags_V == 1

\* MemorySet::new_bare : no area, nothing mapped.  The page table is the set
\* of its valid leaf entries [vpn, ppn, flags]; an area is
\* [start, end, perm, data_frames], data_frames the set of its <<vpn, ppn>>
MemorySet_new_bare == [page_table |-> {}, areas |-> {}]

\* a frame of the allocator that is free; FrameTracker::new zero-fills
ZeroPage(len) == [i \in 1..len |-> 0]

\* no program of scenario S2 runs
NoProg == [pc |-> <<>>, closes_w |-> FALSE, len |-> 0, fds |-> <<>>,
           child |-> 0, read1 |-> <<>>, read2 |-> <<>>, wait |-> <<>>]

\* slots the block cache manager keeps (BLOCK_CACHE_SIZE is 16 in the
\* source; the model keeps the code and scales the number)
BLOCK_CACHE_SIZE == 2
\* bytes of a block (scaled likewise)
BLOCK_SIZE == 1
\* Arc clones callers hold at a time: enough to hold every slot
MaxHandles == BLOCK_CACHE_SIZE
\* the blocks of the device: one more than the cache can hold
BlockIds == 0..BLOCK_CACHE_SIZE

\* BlockCacheManager::new and a device whose blocks are zero
CacheIdle ==
    /\ queue = <<>>
    /\ slots = <<>>
    /\ handles = <<>>
    /\ block_device = [b \in BlockIds |-> ZeroPage(BLOCK_SIZE)]
    /\ bc_panic = FALSE
    /\ expected = [b \in BlockIds |-> ZeroPage(BLOCK_SIZE)]
    /\ dev_writes = <<>>

\* entries of a page of a page table (scaled: PTE_PER_PAGE is 512 in
\* config.rs); a vpn has three indexes of that size
PtePerPage == 2
\* frames the frame allocator has for the nodes of the page table
PtNodes == 5

\* PageTableEntry::empty
PageTableEntry_empty == 0

\* a frame FrameTracker::new has just zero-filled, seen as a page of entries
EmptyNode == [i \in 0..(PtePerPage - 1) |-> PageTableEntry_empty]

\* PageTable::new: the root is the frame frame_alloc hands out
PageTable_new == [root_ppn |-> 0, frames |-> <<0>>, mem |-> (0 :> EmptyNode)]

\* no call of the page table yet
NoPtRet == [op |-> "none", vpn |-> 0, val |-> 0, err |-> ""]

PageTableIdle ==
    /\ ptable = PageTable_new
    /\ ptable_ret = NoPtRet

\* milliseconds between two timer interrupts (scaled: 1000 / TICKS_PER_SEC
\* is 50)
TickMs == 2

\* set_next_trigger at time cur: set_timer(get_time() + CLOCK_FREQ /
\* TICKS_PER_SEC), in milliseconds
set_next_trigger(cur) == cur + TickMs

\* TIMERS empty, the clock at boot, and the set_next_trigger of rust_main
TimerIdle ==
    /\ timers = {}
    /\ now = 0
    /\ next_trigger = set_next_trigger(0)
    /\ sleep_hist = <<>>

\* no kernel function running
NoPath == [fn |-> "none", events |-> <<>>, pc |-> 1]

\* no inner cell borrowed
CellIdle ==
    /\ borrowed = <<>>
    /\ kpath = NoPath

\* the components modelled on their own, before any call
LateIdle == PageTableIdle /\ TimerIdle /\ CellIdle

\* the state of a system without processes
ProcIdle ==
    /\ procs = <<>>
    /\ threads = <<>>
    /\ ready_queue = <<>>
    /\ current = NONE
    /\ pid_allocator = RecycleAllocator_new
    /\ kstack_allocator = RecycleAllocator_new
    /\ sysret = NoSysRet
    /\ sched = [wait |-> <<>>, last |-> NoDispatch]
    /\ exit_hist = <<>>
    /\ memory_set = <<>>
    /\ frames = <<>>
    /\ next_file = FirstInode
    /\ file_flags = <<>>
    /\ open_hist = <<>>
    /\ CacheIdle
    /\ LateIdle
    /\ prog = NoProg

-----------------------------------------------------------------------------
(* filesystem/src/pipe.rs : the calls, as threads run them *)

NoCall == [op |-> "none", it |-> <<>>, cap |-> 0, size |-> 0, n |-> 0,
           obs |-> 0, closed |-> FALSE]
NoRet == [op |-> "none", val |-> 0, n |-> 0, obs |-> 0, closed |-> FALSE]

\* the n fresh bytes a writer's user buffer holds (u8 values, never 0)
FreshBytes(n) == [i \in 1..n |-> (nextByte + i - 1) % 256]

\* make_pipe: an empty ring, one strong reference to the write end
InitPipe ==
    /\ ring_buffer = PipeRingBuffer_new
    /\ write_end = 1
    /\ io = [t \in PipeThreads |-> NoCall]
    /\ ret = NoRet
    /\ accepted = <<>>
    /\ delivered = <<>>
    /\ nextByte = 1
    /\ ProcIdle

\* The part of Pipe::write a thread runs when it has the CPU: effect on the
\* ring, the call record and the histories.
WriteRun(t, it, ws, n, strong) ==
    \E r \in {Pipe_write(ring_buffer, it, ws)} :
        /\ ring_buffer' = r.rb
        /\ accepted' = accepted \o SubSeq(it, 1, Len(it) - Len(r.it))
        /\ IF r.done
           THEN /\ io' = [io EXCEPT ![t] = NoCall]
                /\ ret' = [op |-> "write", val |-> r.size, n |-> n,
                           obs |-> r.obs, closed |-> FALSE]
                \* sys_write drops its Arc<dyn File> on return
                /\ write_end' = strong - 1
           ELSE /\ io' = [io EXCEPT ![t] =
                             [op |-> "write", it |-> r.it, cap |-> 0,
                              size |-> r.size, n |-> n, obs |-> r.obs,
                              closed |-> FALSE]]
                /\ ret' = NoRet
                /\ write_end' = strong
        /\ UNCHANGED delivered

\* sys_write(fd, buf, n) on the write end: prepare_io clones the Arc, then
\* Pipe::write runs up to its first suspension or return.
SysWritePipe(t, n) ==
    /\ io[t].op = "none"
    /\ write_end > 0
    /\ nextByte - 1 + n <= MaxBytes
    /\ nextByte + n <= 256
    /\ nextByte' = nextByte + n
    /\ WriteRun(t, FreshBytes(n), 0, n, write_end + 1)

\* a thread suspended inside Pipe::write is dispatched again (`continue`)
ResumeWrite(t) ==
    /\ io[t].op = "write"
    /\ WriteRun(t, io[t].it, io[t].size, io[t].n, write_end)
    /\ UNCHANGED nextByte

ReadRun(t, cap, rs, n) ==
    \E r \in {Pipe_read(ring_buffer, cap, <<>>, rs, write_end)} :
        /\ ring_buffer' = r.rb
        /\ delivered' = delivered \o r.got
        /\ IF r.done
           THEN /\ io' = [io EXCEPT ![t] = NoCall]
                /\ ret' = [op |-> "read", val |-> r.size, n |-> n,
                           obs |-> r.obs, closed |-> r.closed]
           ELSE /\ io' = [io EXCEPT ![t] =
                             [op |-> "read", it |-> <<>>, cap |-> r.cap,
                              size |-> r.size, n |-> n, obs |-> r.obs,
                              closed |-> r.closed]]
                /\ ret' = NoRet
        /\ UNCHANGED <<write_end, accepted, nextByte>>

\* sys_read(fd, buf, n) on the read end, up to the first suspension or return
SysReadPipe(t, n) ==
    /\ io[t].op = "none"
    /\ ReadRun(t, n, 0, n)

\* a thread suspended inside Pipe::read is dispatched again
ResumeRead(t) ==
    /\ io[t].op = "read"
    /\ ReadRun(t, io[t].cap, io[t].size, io[t].n)

\* sys_close of a descriptor of the write end: the fd table drops its Arc
CloseWriteFd ==
    /\ write_end > Cardinality({t \in PipeThreads : io[t].op = "write"})
    /\ write_end' = write_end - 1
    /\ UNCHANGED <<ring_buffer, io, ret, accepted, delivered, nextByte>>

\* sys_dup of a descriptor of the write end: one more Arc in the fd table
DupWriteFd ==
    /\ write_end > Cardinality({t \in PipeThreads : io[t].op = "write"})
    /\ write_end - Cardinality({t \in PipeThreads : io[t].op = "write"}) < MaxWriteFds
    /\ write_end' = write_end + 1
    /\ UNCHANGED <<ring_buffer, io, ret, accepted, delivered, nextByte>>

NextPipe ==
    \/ \E t \in Writers, n \in WriteLens :
          SysWritePipe(t, n) /\ UNCHANGED <<procVars, memVars, fileVars, prog>>
    \/ \E t \in Writers : ResumeWrite(t) /\ UNCHANGED <<procVars, memVars, fileVars, prog>>
    \/ \E t \in Readers, n \in ReadLens :
          SysReadPipe(t, n) /\ UNCHANGED <<procVars, memVars, fileVars, prog>>
    \/ \E t \in Readers : ResumeRead(t) /\ UNCHANGED <<procVars, memVars, fileVars, prog>>
    \/ CloseWriteFd /\ UNCHANGED <<procVars, memVars, fileVars, prog>>
    \/ DupWriteFd /\ UNCHANGED <<procVars, memVars, fileVars, prog>>

SpecPipe == InitPipe /\ [][NextPipe]_vars

-----------------------------------------------------------------------------
(* Claims about the pipe, checked under SpecPipe *)

\* the bytes the ring holds, oldest first
RingContents ==
    [i \in 1..available_read(ring_buffer) |->
        ring_buffer.arr[(ring_buffer.head + i - 1) % RING_BUFFER_SIZE]]

\* C1: the bytes delivered to readers are always a prefix of the bytes accepted
\* from writers, the ring holds exactly the accepted bytes not yet delivered, in
\* order, and never more than RING_BUFFER_SIZE (32) of them.
C1_PipeOrder ==
    /\ Len(delivered) <= Len(accepted)
    /\ delivered = SubSeq(accepted, 1, Len(delivered))
    /\ RingContents = SubSeq(accepted, Len(delivered) + 1, Len(accepted))
    /\ Len(accepted) - Len(delivered) <= RING_BUFFER_SIZE

\* C1 witness: more bytes than the ring holds have gone through it, so that
\* head and tail have wrapped around, and all of them were delivered.
C1_Witness ==
    /\ Len(delivered) > RING_BUFFER_SIZE
    /\ Len(delivered) = Len(accepted)
    /\ ring_buffer.head # 0

\* C2 as stated: a write call never suspends once it has copied bytes (it
\* copies min(n, k) at its first sight of free space and returns).
C2_WriteReturnsAfterFirstCopy ==
    \A t \in Writers : io[t].op = "write" => io[t].size = 0

\* C2 amended: a write call suspends only on observing zero free space, also
\* after it has copied bytes (even all n of them, when they filled the ring
\* exactly); what it has copied plus what it still holds is n, and it returns
\* only n, at an observation of free space.
C2_WriteAll ==
    /\ \A t \in Writers :
          io[t].op = "write" =>
             /\ io[t].obs = 0
             /\ io[t].size + Len(io[t].it) = io[t].n
    /\ ret.op = "write" => (ret.val = ret.n /\ ret.obs >= 1)

\* C2 witness: a writer is suspended although it has copied all its n bytes.
C2_Witness ==
    \E t \in Writers :
        io[t].op = "write" /\ io[t].size = io[t].n /\ io[t].n > RING_BUFFER_SIZE

\* C3 as stated: a read that has copied at least one byte does not wait for
\* more data (a suspended reader has copied nothing).
C3_ReadReturnsOnceCopied ==
    \A t \in Readers : io[t].op = "read" => io[t].size = 0

\* C3 amended: a read suspends whenever it observes an empty ring while a write
\* end is alive, whatever it has copied; it returns either at an empty ring with
\* every write end dropped (the count copied so far, 0 meaning EOF), or with
\* its buffer full at an observation of a non-empty ring.
C3_ReadBlocks ==
    /\ \A t \in Readers :
          io[t].op = "read" =>
             /\ io[t].obs = 0 /\ ~io[t].closed
             /\ io[t].size + io[t].cap = io[t].n
    /\ ret.op = "read" =>
          \/ ret.obs = 0 /\ ret.closed /\ ret.val <= ret.n
          \/ ret.obs >= 1 /\ ~ret.closed /\ ret.val = ret.n

\* C3 witness: a read returned a partial count at EOF.
C3_Witness ==
    ret.op = "read" /\ ret.closed /\ ret.val > 0 /\ ret.val < ret.n

-----------------------------------------------------------------------------
(* major/src/task : scheduler, fork, exit; trap/syscall/process.rs : wait4 *)

\* number of process objects the kernel creates in a run, INITPROC included
MaxProcs == 3

\* exit(code) arguments user programs pass
ExitArgs == {257, -1}
\* wait4 arguments: pid (-1 or a positive pid), the status pointer (null, a
\* user-writable address, an address check_ptr_mut rejects) and options
WaitArgs ==
    {<<-1, "valid", 0>>, <<-1, "null", 1>>, <<1, "null", 0>>,
     <<1, "invalid", 0>>, <<1, "valid", 1>>, <<-1, "null", 2>>,
     <<-1, "null", 4>>, <<1, "null", 8>>}

\* WaitFlags (trap/syscall/flags.rs)
WNOHANG == 1
WIMTRACED == 2
WCONTINUED == 8
\* bitflags contains() for a single-bit flag
contains(bits, flag) == (bits \div flag) % 2 = 1
\* WaitFlags::from_bits : None when a bit outside the defined flags is set
WaitFlags_from_bits_ok(bits) ==
    bits >= 0 /\ bits < 16 /\ ~contains(bits, 4)

Remove(seq, i) == SubSeq(seq, 1, i - 1) \o SubSeq(seq, i + 1, Len(seq))
Max(S) == CHOOSE x \in S : \A y \in S : y <= x
Range(seq) == {seq[i] : i \in 1..Len(seq)}

\* number of physical frames the frame allocator manages
NFrames == 4
\* bytes of a page
PageLen == 2

Frames == 0..(NFrames - 1)

\* frames the allocator can hand out (buddy_system_allocator, by its
\* contract: a frame that is not allocated)
FreeFrames == {f \in DOMAIN frames : ~frames[f].used}

\* the pages of an address space: <<vpn, ppn>> of every frame its areas own
Pages(ms) == UNION {a.data_frames : a \in ms.areas}
VpnsOf(ms) == {e[1] : e \in Pages(ms)}

\* the area of ms that holds vpn
AreaOf(ms, vpn) == CHOOSE a \in ms.areas : a.start <= vpn /\ vpn < a.end

\* PageTable::find_pte / translate, for a vpn that is mapped
find_pte(pt, vpn) == CHOOSE e \in pt : e.vpn = vpn
translate(pt, vpn) == find_pte(pt, vpn).ppn

\* mutant: the page stays as FrameTracker::new zero-filled it
copy_from_slice_skipped(dst, src) == dst

\* dst.as_page_bytes_mut().copy_from_slice(src.as_page_bytes())
copy_from_slice(dst, src) == src

\* the ways frame_alloc can serve the map_one calls of from_existed_user:
\* one free frame for each page, no frame twice
FrameChoices(user_space) ==
    {alloc \in [VpnsOf(user_space) -> FreeFrames] :
        \A v, w \in VpnsOf(user_space) : alloc[v] = alloc[w] => v = w}

\* MemorySet::from_existed_user(user_space): every area again with the same
\* range and permission (MapArea::from_another), every page mapped to the
\* frame map_one got for it, with the flags of the permission and V
from_existed_user(user_space, alloc) ==
    [page_table |->
        {[vpn |-> v, ppn |-> alloc[v],
          flags |-> AreaOf(user_space, v).perm + PTEFlags_V] :
            v \in VpnsOf(user_space)},
     areas |->
        {[start |-> a.start, end |-> a.end, perm |-> a.perm,
          data_frames |-> {<<v, alloc[v]>> : v \in a.start..(a.end - 1)}] :
            a \in user_space.areas}]

\* the frames after from_existed_user: each frame handed out is zero-filled
\* and then gets the bytes of the page it copies
FramesCopied(user_space, alloc) ==
    [f \in DOMAIN frames |->
        IF \E v \in VpnsOf(user_space) : alloc[v] = f
        THEN LET v == CHOOSE v \in VpnsOf(user_space) : alloc[v] = f
             IN  [used |-> TRUE,
                  bytes |-> copy_from_slice(
                                ZeroPage(PageLen),
                                frames[translate(user_space.page_table, v)].bytes)]
        ELSE frames[f]]

\* MemorySet::recycle_all_pages: areas.clear() drops every FrameTracker,
\* and its Drop calls frame_dealloc(ppn..ppn + 1).  That hands
\* (range.start, range.end) to the dealloc of the buddy allocator, a crate
\* outside this repository whose dealloc takes a start and a count: whether
\* the frames come back to its free lists (taken) is not decided here, and
\* both outcomes are kept.  The page table keeps its entries.
FramesRecycled(ms, taken) ==
    [f \in DOMAIN frames |->
        IF taken /\ \E e \in Pages(ms) : e[2] = f
        THEN [frames[f] EXCEPT !.used = FALSE]
        ELSE frames[f]]

\* the user address space in pages (config.rs, scaled down): anonymous
\* mappings are searched from MMAP_START >> PAGE_SIZE_BITS, user space ends at
\* LOW_END >> PAGE_SIZE_BITS
MMAP_START_VPN == 2
LOW_END_VPN == 8
\* pages of a user stack (USER_STACK_SIZE / PAGE_SIZE), and of the guard
\* below it
UserStackPages == 1
GuardPages == 1

\* ThreadUserRes::user_stack_high_addr / user_stack_low_addr, as page numbers
user_stack_high_vpn(tid) == LOW_END_VPN - tid * (UserStackPages + GuardPages)
user_stack_low_vpn(tid) == user_stack_high_vpn(tid) - UserStackPages

\* MemorySet::remove_area_with_start_vpn: the area that starts at start_vpn,
\* if there is one, leaves areas and every page of its range is unmapped
remove_area_with_start_vpn(ms, start_vpn) ==
    IF \E a \in ms.areas : a.start = start_vpn
    THEN LET area == CHOOSE a \in ms.areas : a.start = start_vpn
         IN  [page_table |-> {e \in ms.page_table :
                                 ~(area.start <= e.vpn /\ e.vpn < area.end)},
              areas |-> ms.areas \ {area}]
    ELSE ms

\* ThreadUserRes::dealloc_user_res (Drop of the user resource of thread tid)
dealloc_user_res(ms, tid) ==
    remove_area_with_start_vpn(ms, user_stack_low_vpn(tid))

\* mutant: an exit that leaves the areas in place
recycle_all_pages_kept(ms) == ms

\* MemorySet::recycle_all_pages: areas.clear(); the page table is not touched
recycle_all_pages(ms) == [ms EXCEPT !.areas = {}]

\* the first process object not created yet (Arc::new of a fresh PCB)
FreshProc == CHOOSE c \in DOMAIN procs :
                 /\ procs[c].state = "none"
                 /\ \A d \in DOMAIN procs : procs[d].state = "none" => c <= d

\* the thread of process p runs in user mode
InUser(p) ==
    /\ current = p
    /\ threads[p].cont.pc = "user"

\* TaskManager::add (push_back)
add_task(q, t) == Append(q, t)
\* mutant: a scheduler that takes the youngest ready thread
fetch_task_lifo(q) == q[Len(q)]
\* TaskManager::fetch (pop_front): the thread taken
fetch_task(q) == q[1]

\* the kernel state at boot besides the process objects: the main thread of
\* INITPROC in the ready queue, pid 0 handed out
InitKernel(n) ==
    /\ threads = [p \in 0..(n - 1) |->
                    NewThread(IF p = INITPROC THEN <<0>> ELSE <<>>)]
    /\ ready_queue = <<INITPROC>>
    /\ current = NONE
    /\ pid_allocator = [current |-> 1, recycled |-> <<>>]
    /\ kstack_allocator = [current |-> 1, recycled |-> <<>>]
    /\ sysret = NoSysRet
    /\ sched = [wait |-> [p \in 0..(n - 1) |->
                            IF p = INITPROC THEN [n |-> 1, others |-> 0]
                            ELSE NoSched],
                last |-> NoDispatch]
    /\ exit_hist = [p \in 0..(n - 1) |-> NotExited]
    /\ next_file = FirstInode
    /\ file_flags = <<>>
    /\ open_hist = <<>>
    /\ CacheIdle
    /\ LateIdle

\* the kernel state at boot: INITPROC with pid 0 and its main thread in the
\* ready queue, every other process object not created yet
InitProcs(n) ==
    /\ procs = [p \in 0..(n - 1) |->
                  IF p = INITPROC
                  THEN [NoProc("live") EXCEPT !.fd_table = DefaultFdTable]
                  ELSE NoProc("none")]
    /\ InitKernel(n)

\* the same with INITPROC loaded from an ELF file whose sections end at page
\* elf_end (Loader::load_elf: heap_start and brk are set to that end)
InitProcsLoaded(n, elf_end) ==
    /\ procs = [p \in 0..(n - 1) |->
                  IF p = INITPROC
                  THEN [NoProc("live") EXCEPT !.fd_table = DefaultFdTable,
                                              !.heap_start = elf_end,
                                              !.brk = elf_end * PageLen]
                  ELSE NoProc("none")]
    /\ InitKernel(n)

\* processes without user pages, and every frame free
InitNoPages(n) ==
    /\ memory_set = [p \in 0..(n - 1) |-> MemorySet_new_bare]
    /\ frames = [f \in Frames |-> [used |-> FALSE, bytes |-> ZeroPage(PageLen)]]

\* the history after add_task(t) on a ready queue q: t and the threads of q
\* are the ready threads
Enqueued(sc, q, t) ==
    [sc EXCEPT !.wait[t] = [n |-> Len(q) + 1, others |-> 0]]

\* the history after thread t was fetched from the ready queue q: every
\* thread that stays in the queue saw one more dispatch of another thread
Dispatched(sc, q, t) ==
    [wait |-> [p \in DOMAIN sc.wait |->
                 IF p = t THEN NoSched
                 ELSE IF p \in Range(q)
                 THEN [sc.wait[p] EXCEPT !.others = @ + 1]
                 ELSE sc.wait[p]],
     last |-> [thread |-> t, n |-> sc.wait[t].n, others |-> sc.wait[t].others]]

\* the history after a step that dispatched no thread
NotDispatched(sc) == [sc EXCEPT !.last = NoDispatch]

\* run_tasks, one iteration of the idle loop, entered with ready queue q and
\* thread records thr: fetch the next ready thread, mark it Running and make
\* it the current one
run_tasks(q, thr, sc) ==
    /\ q # <<>>
    /\ LET t == fetch_task(q)
       IN  /\ ready_queue' = Remove(q, CHOOSE i \in 1..Len(q) : q[i] = t)
           /\ threads' = [thr EXCEPT ![t].thread_status = "Running"]
           /\ current' = t
           /\ sched' = Dispatched(sc, q, t)

\* rust_main -> run_tasks: the first dispatch after boot
Boot ==
    /\ current = NONE
    /\ run_tasks(ready_queue, threads, sched)
    /\ sysret' = NoSysRet
    /\ UNCHANGED <<procs, pid_allocator, kstack_allocator, exit_hist, write_end>>

\* __suspend_curr_and_run_next of the current thread p, entered with ready
\* queue q and scheduler history sc; p continues at cont when it is dispatched
\* again: p goes to the back of the ready queue and schedule() switches to
\* the idle loop, which dispatches the next thread
suspend_from(q, sc, p, cont) ==
    run_tasks(add_task(q, p),
              [threads EXCEPT ![p].thread_status = "Ready", ![p].cont = cont],
              Enqueued(sc, q, p))

\* __suspend_curr_and_run_next called from a syscall
suspend_curr_and_run_next(p, cont) == suspend_from(ready_queue, sched, p, cont)

\* add_timer: BinaryHeap::push of a TimerCondVar
add_timer(ts, expire_ms, thread) ==
    ts \cup {[expire_ms |-> expire_ms, thread |-> thread]}

\* BinaryHeap::peek under TimerCondVar's ordering (the comparison of
\* -(expire_ms as isize)): an entry with the least expire_ms; which one
\* among equal deadlines is up to the heap
peek(ts) == {t \in ts : \A u \in ts : t.expire_ms <= u.expire_ms}

\* mutant: a wake pass that takes every entry for due
is_due_always(expire_ms, current_ms) == TRUE

\* check_timer, the test of the entry at the top of the heap
is_due(expire_ms, current_ms) == expire_ms <= current_ms

\* the state check_timer works on: the heap, the ready queue, the history of
\* the scheduler, and the threads the pass has woken, in order
TimerPass(ts, q, sc, woken) ==
    [timers |-> ts, ready_queue |-> q, sched |-> sc, woken |-> woken]

\* check_timer at time current_ms: while the top of the heap is due, the
\* thread goes to the ready queue (if its process still has a strong
\* reference) and the entry is popped; the outcomes the heap's order among
\* equal deadlines allows
RECURSIVE check_timer(_, _)
check_timer(w, current_ms) ==
    IF w.timers = {}
    THEN {w}
    ELSE UNION {
           IF is_due(timer.expire_ms, current_ms)
           THEN check_timer(
                  IF procs[timer.thread].state = "live"
                  THEN TimerPass(w.timers \ {timer},
                                 add_task(w.ready_queue, timer.thread),
                                 Enqueued(w.sched, w.ready_queue, timer.thread),
                                 Append(w.woken, timer))
                  ELSE TimerPass(w.timers \ {timer}, w.ready_queue, w.sched,
                                 w.woken),
                  current_ms)
           ELSE {w} : timer \in peek(w.timers)}

\* sleep_hist after thread t went to sleep until expire_ms
Asleep(h, t, expire_ms) ==
    [u \in DOMAIN h \cup {t} |->
        IF u = t THEN [deadline |-> expire_ms, woken_at |-> NONE, by |-> NONE]
        ELSE h[u]]

\* sleep_hist after a wake pass at current_ms, run by the interrupt that
\* preempted thread by, popped the entries woken
Woken(h, woken, current_ms, by) ==
    [u \in DOMAIN h |->
        IF \E i \in 1..Len(woken) : woken[i].thread = u
        THEN [h[u] EXCEPT !.woken_at = current_ms, !.by = by] ELSE h[u]]

\* sleep_hist after thread t, which has run since its sleep, left the CPU
Forgotten(h, t) == [u \in DOMAIN h \ {t} |-> h[u]]

\* mutant: a handler that re-enqueues the preempted thread before the wake
\* pass
TimerInterrupt_suspends_first(p) ==
    /\ InUser(p)
    /\ next_trigger' = set_next_trigger(now)
    /\ \E w \in check_timer(TimerPass(timers, add_task(ready_queue, p),
                                      Enqueued(sched, ready_queue, p), <<>>),
                            now) :
          /\ timers' = w.timers
          /\ run_tasks(w.ready_queue,
                       [threads EXCEPT ![p].thread_status = "Ready",
                                       ![p].cont = UserCont],
                       w.sched)
          /\ sleep_hist' = Woken(Forgotten(sleep_hist, p), w.woken, now, p)
    /\ sysret' = NoSysRet
    /\ UNCHANGED <<procs, pid_allocator, kstack_allocator, exit_hist, write_end>>

\* trap_handler, SupervisorTimer: set_next_trigger, then check_timer, then
\* __suspend_curr_and_run_next of the preempted thread
TimerInterrupt(p) ==
    /\ InUser(p)
    /\ next_trigger' = set_next_trigger(now)
    /\ \E w \in check_timer(TimerPass(timers, ready_queue, sched, <<>>), now) :
          /\ timers' = w.timers
          /\ suspend_from(w.ready_queue, w.sched, p, UserCont)
          /\ sleep_hist' = Woken(Forgotten(sleep_hist, p), w.woken, now, p)
    /\ sysret' = NoSysRet
    /\ UNCHANGED <<procs, pid_allocator, kstack_allocator, exit_hist, write_end>>

\* what a timer interrupt leaves alone
tickRest == <<pipeRest, prog, memVars, inodeVars, cacheVars, lateVars>>

\* sleep durations the threads ask for (scaled: 10 ms and 30 ms)
SleepArgs == {1, 3}
\* the clock stops at this time
MaxTime == 3

\* __block_curr_and_run_next of the current thread p: status Blocking, not
\* enqueued, and schedule() switches to the idle loop, whose fetch_task
\* panics ("No more tasks available.") when no thread is ready
block_curr_and_run_next(p, ms) ==
    LET thr == [threads EXCEPT ![p].thread_status = "Blocking",
                               ![p].cont = UserCont]
    IN  IF ready_queue # <<>>
        THEN /\ run_tasks(ready_queue, thr, sched)
             /\ sysret' = [SysRet("sleep", p, 0, "") EXCEPT !.options = ms]
        ELSE /\ threads' = thr
             /\ current' = NONE
             /\ sched' = NotDispatched(sched)
             /\ sysret' = [SysRet("sleep", p, 0, "panic") EXCEPT !.options = ms]
             /\ UNCHANGED ready_queue

\* sys_sleep(ms): a timer for get_time_ms() + ms, then the thread blocks; it
\* returns 0 when it runs again
sys_sleep(p, ms) ==
    /\ InUser(p)
    /\ timers' = add_timer(timers, now + ms, p)
    /\ sleep_hist' = Asleep(sleep_hist, p, now + ms)
    /\ block_curr_and_run_next(p, ms)
    /\ UNCHANGED <<procs, pid_allocator, kstack_allocator, exit_hist, write_end, next_trigger>>

\* a millisecond passes
Tick ==
    /\ now < MaxTime
    /\ now' = now + 1

\* sys_yield: suspend, and return 0 to user mode when dispatched again
sys_yield(p) ==
    /\ InUser(p)
    /\ suspend_curr_and_run_next(p, UserCont)
    /\ sysret' = SysRet("yield", p, 0, "")
    /\ UNCHANGED <<procs, pid_allocator, kstack_allocator, exit_hist, write_end>>

\* number of slots of an fd table that hold file object f
Count(fd_table, f) == Cardinality({i \in 1..Len(fd_table) : fd_table[i] = f})

\* ProcessControlBlock::fork of process p into the fresh process object c:
\* a copy of the address space, a new pid, a clone of the fd table (one more
\* strong reference per slot), the child pushed to the parent's children,
\* its main thread enqueued
fork(p, c) ==
    LET al == pid_alloc(pid_allocator)
        ks == kstack_alloc(kstack_allocator)
    IN  /\ \E alloc \in FrameChoices(memory_set[p]) :
              /\ memory_set' = [memory_set EXCEPT
                                  ![c] = from_existed_user(memory_set[p], alloc)]
              /\ frames' = FramesCopied(memory_set[p], alloc)
        /\ pid_allocator' = al.a
        /\ kstack_allocator' = ks.a
        /\ procs' = [procs EXCEPT
                       ![c] = [state |-> "live", pid |-> al.id, parent |-> p,
                               children |-> <<>>, is_zombie |-> FALSE,
                               exit_code |-> 0,
                               fd_table |-> procs[p].fd_table,
                               heap_start |-> procs[p].heap_start,
                               brk |-> procs[p].brk,
                               sig_handlers |-> procs[p].sig_handlers],
                       ![p].children = Append(@, c)]
        /\ write_end' = write_end + Count(procs[p].fd_table, PipeWriteEnd)
        /\ threads' = [threads EXCEPT
                         ![c] = [NewThread(<<ks.id>>) EXCEPT
                                   !.trap_ctx = [threads[p].trap_ctx
                                                   EXCEPT !.x10 = 0]]]
        /\ ready_queue' = add_task(ready_queue, c)
        /\ sched' = Enqueued(NotDispatched(sched), ready_queue, c)
        /\ sysret' = SysRet("clone", p, al.id, "")

\* sys_clone: only a plain fork (empty clone flags, valid exit signal) is
\* implemented; the parent gets the child's pid, the child gets 0
sys_clone(p, flags_ok) ==
    /\ InUser(p)
    /\ IF flags_ok
       THEN /\ \E c \in DOMAIN procs : procs[c].state = "none"
            /\ fork(p, FreshProc)
            /\ UNCHANGED <<current, exit_hist>>
       ELSE /\ sysret' = SysRet("clone", p, 0, "TEMP")
            /\ sched' = NotDispatched(sched)
            /\ UNCHANGED <<procs, threads, ready_queue, current,
                           pid_allocator, kstack_allocator, exit_hist, write_end, memVars>>

\* mutant: an exit that hands the children over without setting their parent
exit_process_keeps_parent(p, exit_code, how, arg) ==
    /\ procs' = [q \in DOMAIN procs |->
                   IF q = p
                   THEN [procs[p] EXCEPT !.is_zombie = TRUE,
                                         !.exit_code = exit_code,
                                         !.children = <<>>,
                                         !.fd_table = <<>>]
                   ELSE IF q = INITPROC
                   THEN [procs[q] EXCEPT !.children = @ \o procs[p].children]
                   ELSE procs[q]]
    /\ memory_set' =
          [memory_set EXCEPT
              ![p] = recycle_all_pages(
                         dealloc_user_res(memory_set[p], threads[p].res[1]))]
    /\ \E taken \in BOOLEAN : frames' = FramesRecycled(memory_set[p], taken)
    /\ write_end' = write_end - Count(procs[p].fd_table, PipeWriteEnd)
    /\ exit_hist' = [exit_hist EXCEPT ![p] = [how |-> how, arg |-> arg,
                                              returned |-> 0,
                                              orphans |-> procs[p].children]]
    /\ sysret' = NoSysRet
    /\ UNCHANGED <<pid_allocator, kstack_allocator>>

\* __exit_curr_and_run_next(exit_code) of the main thread of process p, the
\* part on the process: it becomes a zombie, its children go to INITPROC, its
\* children list, its areas (after the thread's user stack) and its fd table
\* are cleared
exit_process(p, exit_code, how, arg) ==
    /\ procs' = [q \in DOMAIN procs |->
                   IF q = p
                   THEN [procs[p] EXCEPT !.is_zombie = TRUE,
                                         !.exit_code = exit_code,
                                         !.children = <<>>,
                                         !.fd_table = <<>>]
                   ELSE IF q \in Range(procs[p].children)
                   THEN [procs[q] EXCEPT !.parent = INITPROC]
                   ELSE IF q = INITPROC
                   THEN [procs[q] EXCEPT !.children = @ \o procs[p].children]
                   ELSE procs[q]]
    /\ memory_set' =
          [memory_set EXCEPT
              ![p] = recycle_all_pages(
                         dealloc_user_res(memory_set[p], threads[p].res[1]))]
    /\ \E taken \in BOOLEAN : frames' = FramesRecycled(memory_set[p], taken)
    /\ write_end' = write_end - Count(procs[p].fd_table, PipeWriteEnd)
    /\ exit_hist' = [exit_hist EXCEPT ![p] = [how |-> how, arg |-> arg,
                                              returned |-> 0,
                                              orphans |-> procs[p].children]]
    /\ sysret' = NoSysRet
    /\ UNCHANGED <<pid_allocator, kstack_allocator>>

\* mutant: an exit that drops the thread, and its kernel stack, at once
exit_curr_and_run_next_drops_thread(p, exit_code, how, arg) ==
    /\ run_tasks(ready_queue,
                 [threads EXCEPT ![p].exit_code = <<exit_code>>,
                                 ![p].res = <<>>,
                                 ![p].kernel_stack = <<>>], sched)
    /\ procs' = [q \in DOMAIN procs |->
                   IF q = p
                   THEN [procs[p] EXCEPT !.is_zombie = TRUE,
                                         !.exit_code = exit_code,
                                         !.children = <<>>,
                                         !.fd_table = <<>>]
                   ELSE IF q \in Range(procs[p].children)
                   THEN [procs[q] EXCEPT !.parent = INITPROC]
                   ELSE IF q = INITPROC
                   THEN [procs[q] EXCEPT !.children = @ \o procs[p].children]
                   ELSE procs[q]]
    /\ memory_set' =
          [memory_set EXCEPT
              ![p] = recycle_all_pages(
                         dealloc_user_res(memory_set[p], threads[p].res[1]))]
    /\ \E taken \in BOOLEAN : frames' = FramesRecycled(memory_set[p], taken)
    /\ write_end' = write_end - Count(procs[p].fd_table, PipeWriteEnd)
    /\ exit_hist' = [exit_hist EXCEPT ![p] = [how |-> how, arg |-> arg,
                                              returned |-> 0,
                                              orphans |-> procs[p].children]]
    /\ sysret' = NoSysRet
    /\ kstack_allocator' =
          KernelStack_drop(kstack_allocator, threads[p].kernel_stack[1])
    /\ UNCHANGED pid_allocator

\* __exit_curr_and_run_next(exit_code) of the main thread of process p,
\* p not INITPROC: the thread drops its user resource (which unmaps its user
\* stack), the process becomes a zombie, its children go to INITPROC, its
\* children list, its areas and its fd table are cleared
exit_curr_and_run_next(p, exit_code, how, arg) ==
    /\ run_tasks(ready_queue,
                 [threads EXCEPT ![p].exit_code = <<exit_code>>,
                                 ![p].res = <<>>], sched)
    /\ exit_process(p, exit_code, how, arg)

\* mutant: exit that records the code without masking it
exit_code_unmasked(code) == code

\* the exit code sys_exit records: exit_code & 0xff on an i32
exit_code_of(code) == code % 256

\* sys_exit(code); initproc never exits
sys_exit(p, code) ==
    /\ InUser(p)
    /\ p # INITPROC
    /\ exit_curr_and_run_next(p, exit_code_of(code), "exit", code)

\* mutant: a fault handled as an illegal instruction is
Fault_as_illegal(p) ==
    /\ InUser(p)
    /\ p # INITPROC
    /\ exit_curr_and_run_next(p, -3, "fault", 0)

\* trap_handler: a load / store / instruction (page) fault kills the process
Fault(p) ==
    /\ InUser(p)
    /\ p # INITPROC
    /\ exit_curr_and_run_next(p, -2, "fault", 0)

\* trap_handler: an illegal instruction kills the process
IllegalInstruction(p) ==
    /\ InUser(p)
    /\ p # INITPROC
    /\ exit_curr_and_run_next(p, -3, "illegal", 0)

\* mutant: a scan that takes every child for a proper one
ProperChildren_any(p, pid) == 1..Len(procs[p].children)

\* sys_wait4, the scan of the children: indices of the children of p that
\* the pid argument selects (has_proper_child is "this set is not empty")
ProperChildren(p, pid) ==
    {i \in 1..Len(procs[p].children) :
        pid = -1 \/ procs[procs[p].children[i]].pid = pid}

\* mutant: a scan that does not look at is_zombie
ZombieChildren_any(p, pid) == ProperChildren(p, pid)

\* sys_wait4, the scan of the children: the proper children that are zombies
\* (child_index is the last of them)
ZombieChildren(p, pid) ==
    {i \in ProperChildren(p, pid) : procs[procs[p].children[i]].is_zombie}

\* what wait4 saw and did, for sysret
Wait4Ret(p, pid, wstatus, options, yielded) ==
    [SysRet("wait4", p, 0, "") EXCEPT
        !.pid = pid, !.options = options, !.wstatus = wstatus,
        !.yielded = yielded,
        !.before = [i \in 1..Len(procs[p].children) |->
                      [obj |-> procs[p].children[i],
                       pid |-> procs[procs[p].children[i]].pid,
                       how |-> exit_hist[procs[p].children[i]].how]]]

\* sys_wait4: the zombie child at children[index] is removed and dropped
\* (its pid goes back to PID_ALLOCATOR and, with its main thread, the kernel
\* stack to KSTACK_ALLOCATOR); then the status is written
wait4_reap(p, index, ev) ==
    LET child == procs[p].children[index]
        found_pid == procs[child].pid
        exit_code == procs[child].exit_code
        got == [ev EXCEPT !.child = child, !.exited = <<exit_hist[child]>>]
    IN  /\ procs' = [procs EXCEPT ![p].children = Remove(@, index),
                                  ![child] = NoProc("dropped")]
        /\ pid_allocator' = PidHandle_drop(pid_allocator, found_pid)
        /\ kstack_allocator' =
              KernelStack_drop(kstack_allocator, threads[child].kernel_stack[1])
        /\ memory_set' = [memory_set EXCEPT ![child] = MemorySet_new_bare]
        /\ exit_hist' = [exit_hist EXCEPT
                           ![child] = [NotExited EXCEPT
                                         !.returned = exit_hist[child].returned + 1]]
        /\ sysret' = CASE ev.wstatus = "null" ->
                            [got EXCEPT !.val = found_pid]
                       [] ev.wstatus = "valid" ->
                            [got EXCEPT !.val = found_pid,
                                        !.status = <<exit_code * 256>>]
                       [] OTHER -> [got EXCEPT !.err = "EFAULT"]
        /\ threads' = [threads EXCEPT ![p].cont = UserCont,
                                      ![child].kernel_stack = <<>>]
        /\ sched' = NotDispatched(sched)
        /\ UNCHANGED <<ready_queue, current>>

\* sys_wait4, one iteration of its loop, run by the current thread p
wait4_loop(p, pid, wstatus, options, yielded) ==
    LET ev == Wait4Ret(p, pid, wstatus, options, yielded)
    IN  IF ProperChildren(p, pid) # {}
        THEN IF ZombieChildren(p, pid) # {}
             THEN wait4_reap(p, Max(ZombieChildren(p, pid)), ev)
             ELSE IF contains(options, WNOHANG)
             THEN /\ sysret' = ev
                  /\ threads' = [threads EXCEPT ![p].cont = UserCont]
                  /\ sched' = NotDispatched(sched)
                  /\ UNCHANGED <<procs, ready_queue, current, pid_allocator, kstack_allocator,
                                 exit_hist, memory_set>>
             ELSE /\ suspend_curr_and_run_next(p,
                        [pc |-> "wait4", pid |-> pid, wstatus |-> wstatus,
                         options |-> options])
                  /\ sysret' = NoSysRet
                  /\ UNCHANGED <<procs, pid_allocator, kstack_allocator, exit_hist, memory_set>>
        ELSE /\ sysret' = [ev EXCEPT !.err = "ECHILD"]
             /\ threads' = [threads EXCEPT ![p].cont = UserCont]
             /\ sched' = NotDispatched(sched)
             /\ UNCHANGED <<procs, ready_queue, current, pid_allocator, kstack_allocator,
                             exit_hist, memory_set>>

\* sys_wait4(pid, wstatus, options, 0), from the syscall to its first
\* suspension or return; pid is -1 or positive (anything else panics)
sys_wait4(p, pid, wstatus, options) ==
    /\ InUser(p)
    /\ UNCHANGED <<write_end, frames>>
    /\ IF ~WaitFlags_from_bits_ok(options)
       THEN /\ sysret' = [Wait4Ret(p, pid, wstatus, options, FALSE)
                            EXCEPT !.err = "EINVAL"]
            /\ sched' = NotDispatched(sched)
            /\ UNCHANGED <<procs, threads, ready_queue, current,
                           pid_allocator, kstack_allocator, exit_hist, memory_set>>
       ELSE IF contains(options, WIMTRACED) \/ contains(options, WCONTINUED)
       THEN /\ sysret' = [Wait4Ret(p, pid, wstatus, options, FALSE)
                            EXCEPT !.err = "UNSUPPORTED"]
            /\ sched' = NotDispatched(sched)
            /\ UNCHANGED <<procs, threads, ready_queue, current,
                           pid_allocator, kstack_allocator, exit_hist, memory_set>>
       ELSE wait4_loop(p, pid, wstatus, options, FALSE)

\* a thread that suspended inside sys_wait4 is dispatched and tries again
wait4_retry(p) ==
    /\ current = p
    /\ threads[p].cont.pc = "wait4"
    /\ UNCHANGED <<write_end, frames>>
    /\ wait4_loop(p, threads[p].cont.pid, threads[p].cont.wstatus,
                  threads[p].cont.options, TRUE)

\* the pipe of a system that has made none
PipeIdle ==
    /\ ring_buffer = PipeRingBuffer_new
    /\ write_end = 0
    /\ io = <<>>
    /\ ret = NoRet
    /\ accepted = <<>>
    /\ delivered = <<>>
    /\ nextByte = 1

InitProc ==
    /\ InitProcs(MaxProcs)
    /\ InitNoPages(MaxProcs)
    /\ PipeIdle
    /\ prog = NoProg

\* the variables only fork, exit and wait4 may change among those the
\* scheduler and process syscalls leave alone
procRest == <<ring_buffer, io, ret, accepted, delivered, nextByte,
              fileVars, prog>>

NextProc ==
    \/ Boot /\ UNCHANGED <<procRest, memVars>>
    \/ \E p \in DOMAIN procs :
          TimerInterrupt(p) /\ UNCHANGED tickRest
    \/ \E p \in DOMAIN procs : sys_yield(p) /\ UNCHANGED <<procRest, memVars>>
    \/ \E p \in DOMAIN procs, flags_ok \in BOOLEAN :
          sys_clone(p, flags_ok) /\ UNCHANGED procRest
    \/ \E p \in DOMAIN procs, code \in ExitArgs :
          sys_exit(p, code) /\ UNCHANGED procRest
    \/ \E p \in DOMAIN procs : Fault(p) /\ UNCHANGED procRest
    \/ \E p \in DOMAIN procs : IllegalInstruction(p) /\ UNCHANGED procRest
    \/ \E p \in DOMAIN procs, a \in WaitArgs :
          sys_wait4(p, a[1], a[2], a[3]) /\ UNCHANGED procRest
    \/ \E p \in DOMAIN procs : wait4_retry(p) /\ UNCHANGED procRest

SpecProc == InitProc /\ [][NextProc]_vars

\* the steps the kernel takes without the running program asking for them:
\* the first dispatch, a timer interrupt in user mode, and the next iteration
\* of the loop of sys_wait4 by a thread dispatched inside it
KernelStep ==
    \/ Boot /\ UNCHANGED <<procRest, memVars>>
    \/ \E p \in DOMAIN procs :
          TimerInterrupt(p) /\ UNCHANGED tickRest
    \/ \E p \in DOMAIN procs : wait4_retry(p) /\ UNCHANGED procRest

\* timer interrupts keep arriving, and a thread that is dispatched inside
\* the kernel goes on running
FairSpecProc == SpecProc /\ WF_vars(KernelStep)

\* number of process objects in the runs checked for liveness
WaitProcs == 2

InitWait ==
    /\ InitProcs(WaitProcs)
    /\ InitNoPages(WaitProcs)
    /\ PipeIdle
    /\ prog = NoProg

FairSpecWait == InitWait /\ [][NextProc]_vars /\ WF_vars(KernelStep)

-----------------------------------------------------------------------------
(* Claims about the scheduler and wait4, checked under SpecProc *)

\* C5: the ready queue is FIFO.  A thread enqueued as the n-th ready thread
\* that now stands at place i of the queue has seen exactly n - i dispatches
\* of other threads, so threads leave in the order they came; and a thread
\* is dispatched after at most n - 1 dispatches of other threads.
C5_Fifo ==
    /\ \A i \in 1..Len(ready_queue) :
          sched.wait[ready_queue[i]].others + i = sched.wait[ready_queue[i]].n
    /\ sched.last.thread # NONE => sched.last.others <= sched.last.n - 1

\* a thread enqueued as the third ready thread is dispatched after the two
\* others were
C5_Witness ==
    /\ sched.last.thread # NONE
    /\ sched.last.n = 3
    /\ sched.last.others = 2

\* the options sys_wait4 supports: no flag, or WNOHANG alone
OptionsSupported(options) == options \in {0, WNOHANG}

\* the latest step is a sys_wait4 that returned
Wait4Returned == sysret.op = "wait4"

\* places of the children list wait4 scanned that its pid argument selects
Selected == {i \in 1..Len(sysret.before) :
                sysret.pid = -1 \/ sysret.before[i].pid = sysret.pid}

\* the place, in the children list wait4 scanned, of the child it took
TakenAt == CHOOSE i \in 1..Len(sysret.before) :
               sysret.before[i].obj = sysret.child

\* the exit code a process that terminated as h says must have: the low 8
\* bits of the argument of exit, -2 after a fault, -3 after an illegal
\* instruction
CodeOf(h) ==
    CASE h.how = "exit" -> CHOOSE r \in 0..255 : (h.arg - r) % 256 = 0
      [] h.how = "fault" -> -2
      [] h.how = "illegal" -> -3
      [] OTHER -> 0

\* the child taken was a selected child of the caller that had terminated,
\* and it is in no children list any more
Wait4TookZombie ==
    /\ \E i \in Selected : sysret.before[i].obj = sysret.child
    /\ sysret.exited[1].how \in {"exit", "fault", "illegal"}
    /\ \A q \in DOMAIN procs : sysret.child \notin Range(procs[q].children)
    /\ [i \in 1..(Len(sysret.before) - 1) |->
           IF i < TakenAt THEN sysret.before[i].obj
           ELSE sysret.before[i + 1].obj] = procs[sysret.caller].children

\* C6, as the claim states it: whenever wait4 finds a selected zombie child it
\* removes it, returns its pid, and writes exit_code << 8 to every non-null
\* status pointer
C6_AnyStatusPointer ==
    (Wait4Returned /\ OptionsSupported(sysret.options)
       /\ \E i \in Selected : sysret.before[i].how # "running")
    => /\ sysret.child # NONE
       /\ Wait4TookZombie
       /\ sysret.err = ""
       /\ sysret.val = sysret.before[TakenAt].pid
       /\ sysret.wstatus # "null" =>
              sysret.status = <<CodeOf(sysret.exited[1]) * 256>>

\* C6: whenever wait4 finds a selected zombie child it removes it from the
\* caller's children; if the status pointer is null or writable it returns
\* the child's pid, having written exit_code << 8 to a writable pointer; if
\* the pointer is not writable it returns EFAULT.  No process object is
\* returned twice, and children lists hold live processes only.
C6_Wait4Reaps ==
    /\ \A c \in DOMAIN procs : exit_hist[c].returned <= 1
    /\ \A q \in DOMAIN procs : \A i \in 1..Len(procs[q].children) :
          procs[procs[q].children[i]].state = "live"
    /\ (Wait4Returned /\ OptionsSupported(sysret.options)
          /\ \E i \in Selected : sysret.before[i].how # "running")
       => /\ sysret.child # NONE
          /\ Wait4TookZombie
          /\ procs[sysret.child].state = "dropped"
          /\ sysret.wstatus = "null" =>
                /\ sysret.err = ""
                /\ sysret.val = sysret.before[TakenAt].pid
                /\ sysret.status = <<>>
          /\ sysret.wstatus = "valid" =>
                /\ sysret.err = ""
                /\ sysret.val = sysret.before[TakenAt].pid
                /\ sysret.status = <<CodeOf(sysret.exited[1]) * 256>>
          /\ sysret.wstatus = "invalid" =>
                /\ sysret.err = "EFAULT"
                /\ sysret.status = <<>>

\* wait4 returned the pid and the status of a child that had called
\* exit(257): status 1 << 8
C6_Witness ==
    /\ Wait4Returned
    /\ sysret.child # NONE
    /\ sysret.exited[1].how = "exit"
    /\ sysret.exited[1].arg = 257
    /\ sysret.exited[1].returned = 0
    /\ sysret.val = sysret.before[TakenAt].pid
    /\ sysret.status = <<256>>

\* C7, as the claim states it: a wait4 without WNOHANG that has a selected
\* child returns nothing but the pid of a selected child that terminated
C7_NeverReturnsEarly ==
    (Wait4Returned /\ ~contains(sysret.options, WNOHANG) /\ Selected # {})
    => /\ sysret.child # NONE
       /\ sysret.err = ""
       /\ sysret.val = sysret.before[TakenAt].pid

\* what a sys_wait4 call with options 0 (WNOHANG unset) and a selected child
\* may return, and nothing else: a selected child that has terminated, with
\* its pid and (through a writable status pointer) the code it recorded;
\* a call with WNOHANG returns without having yielded
C7_Returns ==
    /\ (Wait4Returned /\ sysret.options = 0 /\ Selected # {})
       => /\ sysret.child # NONE
          /\ Wait4TookZombie
          /\ sysret.wstatus # "invalid" =>
                /\ sysret.err = ""
                /\ sysret.val = sysret.before[TakenAt].pid
          /\ sysret.wstatus = "valid" =>
                sysret.status = <<CodeOf(sysret.exited[1]) * 256>>
          /\ sysret.wstatus = "invalid" => sysret.err = "EFAULT"
    /\ (Wait4Returned /\ contains(sysret.options, WNOHANG)) => ~sysret.yielded
    /\ \A p \in DOMAIN procs :
          threads[p].cont.pc = "wait4" => threads[p].cont.options = 0

\* process p is suspended inside sys_wait4 and one of the children its pid
\* argument selects has terminated
WaitingWithZombie(p) ==
    /\ threads[p].cont.pc = "wait4"
    /\ \E i \in 1..Len(procs[p].children) :
          /\ threads[p].cont.pid = -1
                \/ procs[procs[p].children[i]].pid = threads[p].cont.pid
          /\ exit_hist[procs[p].children[i]].how # "running"

\* C7: a sys_wait4 call with options 0 that has a selected child returns only
\* once a selected child has terminated (see C7_Returns); it yields and
\* retries, and once a selected child has terminated the call returns, having
\* taken such a child.
C7_WaitsForExit ==
    /\ []C7_Returns
    /\ \A p \in 0..(WaitProcs - 1) :
          WaitingWithZombie(p)
             ~> (Wait4Returned /\ sysret.caller = p /\ sysret.child # NONE)

\* a wait4 that yielded returned, later, the pid and the status of its child
C7_Witness ==
    /\ Wait4Returned
    /\ sysret.yielded
    /\ sysret.options = 0
    /\ sysret.child # NONE
    /\ sysret.wstatus = "valid"
    /\ sysret.val = sysret.before[TakenAt].pid
    /\ sysret.status = <<CodeOf(sysret.exited[1]) * 256>>

\* C8, as the claim states it: wait4 returns ECHILD exactly when the caller
\* has no child that pid selects
C8_EchildIffNoChild ==
    Wait4Returned => (sysret.err = "ECHILD" <=> Selected = {})

\* C8: a sys_wait4 call with supported options (none, or WNOHANG) returns
\* ECHILD exactly when the caller has no child that pid selects, and then it
\* has not yielded and the children list is as it was; with other options it
\* returns EINVAL or UNSUPPORTED, whatever the children are.
C8_Echild ==
    Wait4Returned =>
       /\ OptionsSupported(sysret.options) =>
             (sysret.err = "ECHILD" <=> Selected = {})
       /\ ~OptionsSupported(sysret.options) =>
             sysret.err \in {"EINVAL", "UNSUPPORTED"}
       /\ sysret.err \in {"ECHILD", "EINVAL", "UNSUPPORTED"} =>
             /\ ~sysret.yielded
             /\ procs[sysret.caller].children =
                   [i \in 1..Len(sysret.before) |-> sysret.before[i].obj]
             /\ sysret.child = NONE

\* wait4(1, ...) returned ECHILD to a caller that has a child, of another pid
C8_Witness ==
    /\ Wait4Returned
    /\ sysret.err = "ECHILD"
    /\ sysret.pid = 1
    /\ Len(sysret.before) > 0

-----------------------------------------------------------------------------
(* major/src/trap/syscall/fs.rs : the fd table of a process *)

\* processes of the fd table specification
FdProcs == 2
\* longest fd table a call may make
MaxFds == 3
\* number of files open_file may create
MaxFiles == 1

\* descriptors handed to sys_close and sys_dup: a standard one, and the
\* first one past a default table
CloseFds == {1, 3}
DupFds == {0, 3}

\* an empty slot of an fd table (Option::None)
NoFile == 0

Min(S) == CHOOSE x \in S : \A y \in S : x <= y

\* ProcessControlBlockInner::alloc_fd_from(min): the table grown to min
\* slots, the lowest empty slot from min on, or else a slot pushed at the end
alloc_fd_from(fd_table, min) ==
    LET table == IF min > Len(fd_table)
                 THEN fd_table \o [i \in 1..(min - Len(fd_table)) |-> NoFile]
                 ELSE fd_table
        empty == {fd \in min..(Len(table) - 1) : table[fd + 1] = NoFile}
    IN  IF empty # {}
        THEN [fd |-> Min(empty), fd_table |-> table]
        ELSE [fd |-> Len(table), fd_table |-> Append(table, NoFile)]

\* ProcessControlBlockInner::alloc_fd
alloc_fd(fd_table) == alloc_fd_from(fd_table, 0)

\* fd_table.get(fd) is Some(Some(file))
fd_open(fd_table, fd) == fd < Len(fd_table) /\ fd_table[fd + 1] # NoFile

\* inner.fd_table[fd] = Some(file), inner the PCB of process p
fd_set(pr, p, fd_table, fd, file) ==
    [pr EXCEPT ![p].fd_table = [fd_table EXCEPT ![fd + 1] = file]]

\* mutant: closing the descriptor empties the slot of every process that
\* holds the same file there
fd_take_everywhere(pr, p, fd) ==
    [q \in DOMAIN pr |->
        IF fd_open(pr[q].fd_table, fd)
           /\ pr[q].fd_table[fd + 1] = pr[p].fd_table[fd + 1]
        THEN [pr[q] EXCEPT !.fd_table[fd + 1] = NoFile]
        ELSE pr[q]]

\* inner.fd_table[fd].take(), inner the PCB of process p
fd_take(pr, p, fd) == [pr EXCEPT ![p].fd_table[fd + 1] = NoFile]

\* a syscall that returns to user mode without entering the scheduler
ReturnsToUser ==
    /\ sched' = NotDispatched(sched)
    /\ UNCHANGED <<threads, ready_queue, current, pid_allocator, kstack_allocator, exit_hist>>

\* OpenFlags (filesystem/src/inode.rs)
O_RDONLY == 0
O_CLOEXEC == 524288
OpenFlags_empty == 0

\* the flags sys_openat is called with
OpenatFlags == {O_RDONLY, O_CLOEXEC}

\* open_inode(path, flags) ends in InodeFile::new(path, readable, writable,
\* entry), which starts the object with flags: OpenFlags::empty()
open_inode(flags) == OpenFlags_empty

\* sys_openat: an invalid path or flags, or a failing open_file, return the
\* error; else the file open_file made goes to the slot alloc_fd names
sys_openat(p, ok, flags) ==
    /\ InUser(p)
    /\ ReturnsToUser
    /\ UNCHANGED write_end
    /\ IF ~ok
       THEN /\ sysret' = SysRet("openat", p, 0, "TEMP")
            /\ UNCHANGED <<procs, fileVars>>
       ELSE LET a == alloc_fd(procs[p].fd_table)
            IN  /\ a.fd < MaxFds
                /\ next_file < FirstInode + MaxFiles
                /\ next_file' = next_file + 1
                /\ file_flags' = file_flags @@ (next_file :> open_inode(flags))
                /\ open_hist' = open_hist @@ (next_file :> flags)
                /\ UNCHANGED deviceVars
                /\ procs' = fd_set(procs, p, a.fd_table, a.fd, next_file)
                /\ sysret' = SysRet("openat", p, a.fd, "")

\* sys_close: EBADF for a descriptor that is not open; else the slot is
\* emptied, which drops one reference to the file
sys_close(p, fd) ==
    /\ InUser(p)
    /\ ReturnsToUser
    /\ UNCHANGED fileVars
    /\ IF fd_open(procs[p].fd_table, fd)
       THEN /\ procs' = fd_take(procs, p, fd)
            /\ write_end' = IF procs[p].fd_table[fd + 1] = PipeWriteEnd
                            THEN write_end - 1 ELSE write_end
            /\ sysret' = SysRet("close", p, 0, "")
       ELSE /\ sysret' = SysRet("close", p, 0, "EBADF")
            /\ UNCHANGED <<procs, write_end>>

\* sys_dup: TEMP for a descriptor that is not open; else one more reference
\* to the file goes to the slot alloc_fd names
sys_dup(p, fd) ==
    /\ InUser(p)
    /\ ReturnsToUser
    /\ UNCHANGED fileVars
    /\ IF fd_open(procs[p].fd_table, fd)
       THEN LET a == alloc_fd(procs[p].fd_table)
                file == procs[p].fd_table[fd + 1]
            IN  /\ a.fd < MaxFds
                /\ procs' = fd_set(procs, p, a.fd_table, a.fd, file)
                /\ write_end' = IF file = PipeWriteEnd
                                THEN write_end + 1 ELSE write_end
                /\ sysret' = SysRet("dup", p, a.fd, "")
       ELSE /\ sysret' = SysRet("dup", p, 0, "TEMP")
            /\ UNCHANGED <<procs, write_end>>

InitFd ==
    /\ InitProcs(FdProcs)
    /\ InitNoPages(FdProcs)
    /\ PipeIdle
    /\ prog = NoProg

\* the variables the fd table syscalls leave alone
fdRest == <<ring_buffer, io, ret, accepted, delivered, nextByte, prog>>

NextFd ==
    \/ Boot /\ UNCHANGED <<fdRest, memVars, fileVars>>
    \/ \E p \in DOMAIN procs :
          TimerInterrupt(p) /\ UNCHANGED tickRest
    \/ \E p \in DOMAIN procs :
          sys_clone(p, TRUE) /\ UNCHANGED <<fdRest, fileVars>>
    \/ \E p \in DOMAIN procs, ok \in BOOLEAN :
          sys_openat(p, ok, O_RDONLY) /\ UNCHANGED <<fdRest, memVars>>
    \/ \E p \in DOMAIN procs, fd \in CloseFds :
          sys_close(p, fd) /\ UNCHANGED <<fdRest, memVars>>
    \/ \E p \in DOMAIN procs, fd \in DupFds :
          sys_dup(p, fd) /\ UNCHANGED <<fdRest, memVars>>

SpecFd == InitFd /\ [][NextFd]_vars

-----------------------------------------------------------------------------
(* memory/src/memory_set.rs : address spaces of forked processes *)

\* processes of the address space specification
MemProcs == 2
\* the byte a user store writes
StoreVals == {7}

\* PTEFlags::from_bits_truncate(map_perm.bits()), and V set by PageTable::map
pte_flags(perm) == perm + PTEFlags_V

\* the address space load_elf gives INITPROC: a code page (R | X | U) at
\* vpn 0 in frame 0 and a data page (R | W | U) at vpn 1 in frame 1
ElfAreas ==
    {[start |-> 0, end |-> 1,
      perm |-> MapPermission_R + MapPermission_X + MapPermission_U,
      data_frames |-> {<<0, 0>>}],
     [start |-> 1, end |-> 2,
      perm |-> MapPermission_R + MapPermission_W + MapPermission_U,
      data_frames |-> {<<1, 1>>}]}

ElfMemorySet ==
    [page_table |-> {[vpn |-> e[1], ppn |-> e[2], flags |-> pte_flags(a.perm)] :
                        <<e, a>> \in {<<e, a>> \in
                                        Pages([areas |-> ElfAreas]) \X ElfAreas :
                                            e \in a.data_frames}},
     areas |-> ElfAreas]

\* the bytes the ELF file has for the page in frame f
ElfBytes(f) == [i \in 1..PageLen |-> f + i]

InitPages(n) ==
    /\ memory_set = [p \in 0..(n - 1) |->
                       IF p = INITPROC THEN ElfMemorySet
                       ELSE MemorySet_new_bare]
    /\ frames = [f \in Frames |->
                   IF \E e \in Pages(ElfMemorySet) : e[2] = f
                   THEN [used |-> TRUE, bytes |-> ElfBytes(f)]
                   ELSE [used |-> FALSE, bytes |-> ZeroPage(PageLen)]]

\* the bits of flag are all set in flags (flag a single bit)
has_flag(flags, flag) == (flags \div flag) % 2 = 1

\* a store instruction of the running process p to byte off of page vpn, which
\* its page table maps valid, writable and for user mode (any other store
\* traps: see Fault)
UserStore(p, vpn, off, val) ==
    /\ InUser(p)
    /\ \E e \in memory_set[p].page_table :
          /\ e.vpn = vpn
          /\ has_flag(e.flags, PTEFlags_V)
          /\ has_flag(e.flags, MapPermission_W)
          /\ has_flag(e.flags, MapPermission_U)
          /\ frames' = [frames EXCEPT ![e.ppn].bytes[off] = val]
    /\ sysret' = NoSysRet
    /\ sched' = NotDispatched(sched)
    /\ UNCHANGED <<procs, threads, ready_queue, current, pid_allocator, kstack_allocator,
                   exit_hist, write_end, memory_set>>

InitMem ==
    /\ InitProcs(MemProcs)
    /\ InitPages(MemProcs)
    /\ PipeIdle
    /\ prog = NoProg

NextMem ==
    \/ Boot /\ UNCHANGED <<procRest, memVars>>
    \/ \E p \in DOMAIN procs :
          TimerInterrupt(p) /\ UNCHANGED tickRest
    \/ \E p \in DOMAIN procs : sys_clone(p, TRUE) /\ UNCHANGED procRest
    \/ \E p \in DOMAIN procs, vpn \in 0..1, off \in 1..PageLen,
          val \in StoreVals :
          UserStore(p, vpn, off, val) /\ UNCHANGED procRest
    \/ \E p \in DOMAIN procs : Fault(p) /\ UNCHANGED procRest
    \/ \E p \in DOMAIN procs :
          sys_wait4(p, -1, "null", WNOHANG) /\ UNCHANGED procRest

SpecMem == InitMem /\ [][NextMem]_vars

-----------------------------------------------------------------------------
(* Scenario S2: a pipe between a parent and the child it forks *)

\* process objects of the scenario: the parent and its child
S2Procs == 2
\* the bytes "ABCD"
ABCD == <<65, 66, 67, 68>>
\* lengths of the buffer the parent hands to read
S2ReadLens == {4, 8}

\* the descriptors sys_pipe2 stores to filedes for a process with this table
pipe2_filedes(fd_table) ==
    LET a == alloc_fd(fd_table)
        b == alloc_fd([a.fd_table EXCEPT ![a.fd + 1] = PipeReadEnd])
    IN  <<a.fd, b.fd>>

\* sys_pipe2(filedes), filedes a writable array: make_pipe, the read end and
\* then the write end each go to the slot alloc_fd names
sys_pipe2(p) ==
    LET a == alloc_fd(procs[p].fd_table)
        b == alloc_fd([a.fd_table EXCEPT ![a.fd + 1] = PipeReadEnd])
    IN  /\ InUser(p)
        /\ ReturnsToUser
        /\ ring_buffer' = PipeRingBuffer_new
        /\ write_end' = 1
        /\ procs' = fd_set(fd_set(procs, p, a.fd_table, a.fd, PipeReadEnd),
                           p, b.fd_table, b.fd, PipeWriteEnd)
        /\ sysret' = SysRet("pipe2", p, 0, "")
        /\ UNCHANGED <<io, ret, accepted, delivered, nextByte>>

\* the current thread p returns from its syscall to user mode
ReturnFromCall(p, op, val) ==
    /\ threads' = [threads EXCEPT ![p].cont = UserCont]
    /\ sysret' = SysRet(op, p, val, "")
    /\ sched' = NotDispatched(sched)
    /\ UNCHANGED <<ready_queue, current>>

\* the current thread p suspends inside Pipe::read or Pipe::write
SuspendInCall(p, op) ==
    /\ suspend_curr_and_run_next(p, [UserCont EXCEPT !.pc = op])
    /\ sysret' = NoSysRet

\* Pipe::read of thread p from the top of its loop, cap slots of the buffer
\* left and rs bytes read: up to the return or the next suspension
pipe_read(p, cap, rs, n) ==
    /\ ReadRun(p, cap, rs, n)
    /\ \E r \in {Pipe_read(ring_buffer, cap, <<>>, rs, write_end)} :
          IF r.done THEN ReturnFromCall(p, "read", r.size)
          ELSE SuspendInCall(p, "read")

\* Pipe::write of thread p from the top of its loop, `it` the bytes not yet
\* written, ws bytes written, strong the strong count of the write end
pipe_write(p, it, ws, n, strong) ==
    /\ WriteRun(p, it, ws, n, strong)
    /\ UNCHANGED nextByte
    /\ \E r \in {Pipe_write(ring_buffer, it, ws)} :
          IF r.done THEN ReturnFromCall(p, "write", r.size)
          ELSE SuspendInCall(p, "write")

\* prepare_io(fd, is_read) finds a file: here the read end of the pipe for a
\* read, its write end for a write
prepare_io(fd_table, fd, is_read) ==
    /\ fd_open(fd_table, fd)
    /\ fd_table[fd + 1] = IF is_read THEN PipeReadEnd ELSE PipeWriteEnd

\* the caller returns EBADF
ReturnEBADF(p, op) ==
    /\ ReturnsToUser
    /\ sysret' = SysRet(op, p, 0, "EBADF")
    /\ UNCHANGED pipeVars

\* sys_read(fd, buf, len), buf a writable buffer and fd the read end of the
\* pipe or no readable file
sys_read(p, fd, len) ==
    /\ InUser(p)
    /\ UNCHANGED <<procs, pid_allocator, kstack_allocator, exit_hist>>
    /\ IF prepare_io(procs[p].fd_table, fd, TRUE)
       THEN pipe_read(p, len, 0, len)
       ELSE ReturnEBADF(p, "read")

\* sys_write(fd, buf, len), buf a readable buffer and fd the write end of the
\* pipe or no writable file; the call holds a reference to the file
sys_write(p, fd, buf) ==
    /\ InUser(p)
    /\ UNCHANGED <<procs, pid_allocator, kstack_allocator, exit_hist>>
    /\ IF prepare_io(procs[p].fd_table, fd, FALSE)
       THEN pipe_write(p, buf, 0, Len(buf), write_end + 1)
       ELSE ReturnEBADF(p, "write")

\* a thread that suspended inside Pipe::read or Pipe::write is dispatched
\* and goes on with its loop
pipe_retry(p) ==
    /\ current = p
    /\ threads[p].cont.pc \in {"read", "write"}
    /\ UNCHANGED <<procs, pid_allocator, kstack_allocator, exit_hist>>
    /\ IF threads[p].cont.pc = "read"
       THEN pipe_read(p, io[p].cap, io[p].size, io[p].n)
       ELSE pipe_write(p, io[p].it, io[p].size, io[p].n, write_end)

\* the buffer a read call that returned val filled: the last val bytes
\* delivered
ReadBuf(dl, val) == SubSeq(dl, Len(dl) - val + 1, Len(dl))

\* the program of process p after the syscall sr has returned to it (sr is
\* NoSysRet while the call has not returned): it notes the result and goes
\* to its next call
Returned(pg, p, sr, dl) ==
    IF sr.op = "read" /\ pg.pc[p] = "read1"
    THEN [pg EXCEPT !.pc[p] = "read2",
                    !.read1 = <<[val |-> sr.val, err |-> sr.err,
                                 buf |-> ReadBuf(dl, sr.val)]>>]
    ELSE IF sr.op = "read" /\ pg.pc[p] = "read2"
    THEN [pg EXCEPT !.pc[p] = "wait",
                    !.read2 = <<[val |-> sr.val, err |-> sr.err,
                                 buf |-> ReadBuf(dl, sr.val)]>>]
    ELSE IF sr.op = "write" THEN [pg EXCEPT !.pc[p] = "exit"]
    ELSE IF sr.op = "close" THEN [pg EXCEPT !.pc[p] = "read1"]
    ELSE IF sr.op = "wait4"
    THEN [pg EXCEPT !.pc[p] = "done",
                    !.wait = <<[val |-> sr.val, err |-> sr.err]>>]
    ELSE pg

\* the parent: pipe(fds); fork(); [close(fds[1]);] read(fds[0]); read(fds[0]);
\* wait4(...).  The child: write(fds[1], "ABCD"); exit(0).
S2_pipe(p) ==
    /\ prog.pc[p] = "pipe"
    /\ sys_pipe2(p)
    /\ prog' = [prog EXCEPT !.pc[p] = "fork",
                            !.fds = pipe2_filedes(procs[p].fd_table)]
    /\ UNCHANGED <<memVars, fileVars>>

S2_fork(p) ==
    /\ prog.pc[p] = "fork"
    /\ sys_clone(p, TRUE)
    /\ prog' = [prog EXCEPT
                  !.pc = [q \in DOMAIN prog.pc |->
                            IF q = p
                            THEN IF prog.closes_w THEN "close" ELSE "read1"
                            ELSE IF q = FreshProc THEN "write"
                            ELSE prog.pc[q]],
                  !.child = sysret'.val]
    /\ UNCHANGED <<ring_buffer, io, ret, accepted, delivered, nextByte,
                   fileVars>>

S2_close(p) ==
    /\ prog.pc[p] = "close"
    /\ sys_close(p, prog.fds[2])
    /\ prog' = Returned(prog, p, sysret', delivered')
    /\ UNCHANGED <<ring_buffer, io, ret, accepted, delivered, nextByte, memVars>>

S2_read(p) ==
    /\ prog.pc[p] \in {"read1", "read2"}
    /\ sys_read(p, prog.fds[1], prog.len)
    /\ prog' = Returned(prog, p, sysret', delivered')
    /\ UNCHANGED <<memVars, fileVars>>

S2_write(p) ==
    /\ prog.pc[p] = "write"
    /\ sys_write(p, prog.fds[2], ABCD)
    /\ prog' = Returned(prog, p, sysret', delivered')
    /\ UNCHANGED <<memVars, fileVars>>

S2_exit(p) ==
    /\ prog.pc[p] = "exit"
    /\ sys_exit(p, 0)
    /\ prog' = [prog EXCEPT !.pc[p] = "exited"]
    /\ UNCHANGED <<ring_buffer, io, ret, accepted, delivered, nextByte,
                   fileVars>>

S2_wait(p) ==
    /\ prog.pc[p] = "wait"
    /\ \E pid \in {-1, prog.child} : sys_wait4(p, pid, "null", 0)
    /\ prog' = Returned(prog, p, sysret', delivered')
    /\ UNCHANGED <<ring_buffer, io, ret, accepted, delivered, nextByte,
                   fileVars>>

\* a thread that suspended inside read, write or wait4 is dispatched and
\* goes on with the loop of its call
S2_retry(p) ==
    /\ \/ pipe_retry(p) /\ UNCHANGED memVars
       \/ wait4_retry(p) /\ UNCHANGED <<ring_buffer, io, ret, accepted,
                                         delivered, nextByte>>
    /\ prog' = Returned(prog, p, sysret', delivered')
    /\ UNCHANGED fileVars

\* the parent is INITPROC, about to call pipe; it closes its descriptor of
\* the write end after the fork, or keeps it
InitS2 ==
    /\ InitProcs(S2Procs)
    /\ InitNoPages(S2Procs)
    /\ ring_buffer = PipeRingBuffer_new
    /\ write_end = 0
    /\ io = [p \in 0..(S2Procs - 1) |-> NoCall]
    /\ ret = NoRet
    /\ accepted = <<>>
    /\ delivered = <<>>
    /\ nextByte = 1
    /\ \E c \in BOOLEAN, len \in S2ReadLens :
          prog = [NoProg EXCEPT
                    !.pc = [p \in 0..(S2Procs - 1) |->
                              IF p = INITPROC THEN "pipe" ELSE "none"],
                    !.closes_w = c,
                    !.len = len]

\* the steps of the user programs
S2User ==
    \/ \E p \in DOMAIN procs : S2_pipe(p)
    \/ \E p \in DOMAIN procs : S2_fork(p)
    \/ \E p \in DOMAIN procs : S2_close(p)
    \/ \E p \in DOMAIN procs : S2_read(p)
    \/ \E p \in DOMAIN procs : S2_write(p)
    \/ \E p \in DOMAIN procs : S2_exit(p)
    \/ \E p \in DOMAIN procs : S2_wait(p)

\* the steps the kernel takes by itself once a thread is dispatched
S2Kernel ==
    \/ Boot /\ UNCHANGED <<procRest, memVars>>
    \/ \E p \in DOMAIN procs : S2_retry(p)

S2Timer ==
    \E p \in DOMAIN procs : TimerInterrupt(p) /\ UNCHANGED tickRest

NextS2 ==
    \/ \E p \in DOMAIN procs : S2_pipe(p)
    \/ \E p \in DOMAIN procs : S2_fork(p)
    \/ \E p \in DOMAIN procs : S2_close(p)
    \/ \E p \in DOMAIN procs : S2_read(p)
    \/ \E p \in DOMAIN procs : S2_write(p)
    \/ \E p \in DOMAIN procs : S2_exit(p)
    \/ \E p \in DOMAIN procs : S2_wait(p)
    \/ Boot /\ UNCHANGED <<procRest, memVars>>
    \/ \E p \in DOMAIN procs : S2_retry(p)
    \/ S2Timer

\* a dispatched thread in the kernel goes on (weak fairness); a program that
\* is dispatched again and again gets to run its next call before the timer
\* preempts it (strong fairness)
FairSpecS2 ==
    InitS2 /\ [][NextS2]_vars /\ WF_vars(S2Kernel) /\ SF_vars(S2User)

-----------------------------------------------------------------------------
(* Claims about the fd table, checked under SpecFd *)

\* the process a successful sys_clone has just made: the youngest child of
\* the caller
ForkedChild(pr, p) == pr[p].children[Len(pr[p].children)]

\* C10: a fork gives the child an fd table that holds, slot by slot, the
\* file objects of the parent's table (an empty slot where the parent's is
\* empty) and leaves the parent's table as it was; and an open, close or dup
\* by one process leaves every slot of every other process's table as it
\* was.
C10_ForkSharesFiles ==
    [][/\ (sysret'.op = "clone" /\ sysret'.err = "") =>
             /\ procs'[ForkedChild(procs', sysret'.caller)].fd_table
                   = procs[sysret'.caller].fd_table
             /\ procs'[sysret'.caller].fd_table
                   = procs[sysret'.caller].fd_table
       /\ sysret'.op \in {"openat", "close", "dup"} =>
             \A q \in 0..(FdProcs - 1) :
                q # sysret'.caller => procs'[q].fd_table = procs[q].fd_table
      ]_vars

\* a child has closed a descriptor of a file its parent opened before the
\* fork: the child's slot is empty, the parent's still holds the file
C10_Witness ==
    /\ sysret.op = "close"
    /\ sysret.err = ""
    /\ procs[sysret.caller].parent # NONE
    /\ procs[sysret.caller].fd_table[2] = NoFile
    /\ procs[procs[sysret.caller].parent].fd_table[2] = FirstInode
    /\ procs[sysret.caller].fd_table[1]
          = procs[procs[sysret.caller].parent].fd_table[1]

-----------------------------------------------------------------------------
(* Claims about the address space of a forked process, checked under SpecMem *)

\* the regions of an address space: VPN range and permission of every area
Regions(ms) == {[start |-> a.start, end |-> a.end, perm |-> a.perm] :
                   a \in ms.areas}

\* the pages the page table pt maps
Mapped(pt) == {e.vpn : e \in pt}

\* what a process with page table pt reads when the frames are fr: the bytes
\* of every page it maps
View(pt, fr) == [vpn \in Mapped(pt) |-> fr[translate(pt, vpn)].bytes]

\* the parent and the child of the sys_clone that has just returned
ForkParent == memory_set[sysret.caller]
ForkChild == memory_set[ForkedChild(procs, sysret.caller)]

\* right after a fork the child has the regions of the parent, it maps the
\* pages of these regions and no other, each with the parent's flags, to a
\* frame of its own that is not the parent's and holds the parent's bytes
C9_Copied ==
    (sysret.op = "clone" /\ sysret.err = "") =>
       /\ Regions(ForkChild) = Regions(ForkParent)
       /\ Mapped(ForkChild.page_table) = VpnsOf(ForkParent)
       /\ Pages(ForkChild)
             = {<<e.vpn, e.ppn>> : e \in ForkChild.page_table}
       /\ \A vpn \in VpnsOf(ForkParent) :
             /\ translate(ForkChild.page_table, vpn)
                   # translate(ForkParent.page_table, vpn)
             /\ find_pte(ForkChild.page_table, vpn).flags
                   = find_pte(ForkParent.page_table, vpn).flags
             /\ frames[translate(ForkChild.page_table, vpn)].used
       /\ View(ForkChild.page_table, frames)
             = View(ForkParent.page_table, frames)

\* a store by the running process (a step that changes bytes of a frame and
\* no address space) changes no byte another living process reads
C9_StoreLocal ==
    (memory_set' = memory_set /\ frames' # frames) =>
       \A q \in 0..(MemProcs - 1) :
          (q # current /\ procs[q].state = "live" /\ ~procs[q].is_zombie) =>
             View(memory_set[q].page_table, frames')
                = View(memory_set[q].page_table, frames)

\* C9: right after fork the child's address space has the parent's regions
\* (same VPN ranges, same permissions), every page in a frame that is not
\* the parent's and holds the same bytes; afterwards a store to a user page
\* by one process changes no byte any other living process reads.
C9_ForkCopiesMemory == []C9_Copied /\ [][C9_StoreLocal]_vars

\* a parent and its child, both alive, read different bytes in their data
\* page and the same, non-zero bytes in their code page: one of them has
\* written after the fork
C9_Witness ==
    \E c \in DOMAIN procs :
       /\ procs[c].state = "live" /\ ~procs[c].is_zombie
       /\ procs[c].parent # NONE
       /\ ~procs[procs[c].parent].is_zombie
       /\ View(memory_set[c].page_table, frames)[1]
             # View(memory_set[procs[c].parent].page_table, frames)[1]
       /\ View(memory_set[c].page_table, frames)[0]
             = View(memory_set[procs[c].parent].page_table, frames)[0]
       /\ View(memory_set[c].page_table, frames)[0] = ElfBytes(0)

-----------------------------------------------------------------------------
(* Claims about scenario S2, checked under FairSpecS2 *)

\* the parent has gone through all its steps
S2Done == prog.pc[INITPROC] = "done"

\* the results the scenario names: "ABCD", then end of file, then the pid
\* of the child
S2Results ==
    /\ prog.read1 # <<>> =>
          prog.read1 = <<[val |-> 4, err |-> "", buf |-> ABCD]>>
    /\ prog.read2 # <<>> =>
          prog.read2 = <<[val |-> 0, err |-> "", buf |-> <<>>]>>
    /\ prog.wait # <<>> =>
          prog.wait = <<[val |-> prog.child, err |-> ""]>>
    /\ S2Done => (prog.read1 # <<>> /\ prog.read2 # <<>> /\ prog.wait # <<>>)

\* the parent is inside a read that found the ring empty and the write end
\* alive, and no other process is left to write or to close: every other
\* process has terminated
ReadCannotReturn ==
    /\ threads[INITPROC].cont.pc = "read"
    /\ available_read(ring_buffer) = 0
    /\ ~all_write_ends_closed(write_end)
    /\ \A q \in DOMAIN procs :
          q # INITPROC => (procs[q].state # "live" \/ procs[q].is_zombie)

\* C4, as the claim states it (the parent keeps its descriptor of the write
\* end): every step of the parent terminates, so the parent is never left
\* inside a read that cannot return
C4_EveryStepTerminates == ~prog.closes_w => ~ReadCannotReturn

\* C4: when the parent closes its descriptor of the write end after the fork
\* and before it reads, its first read returns the 4 bytes "ABCD", its second
\* read returns 0, its wait4 returns the pid of the child, and it gets
\* through all its steps.
C4_S2 ==
    /\ [](prog.closes_w => S2Results)
    /\ prog.closes_w => <>S2Done

\* the parent that closed its descriptor has read "ABCD", then end of file,
\* and has got the pid of its child from wait4
C4_Witness ==
    /\ prog.closes_w
    /\ S2Done
    /\ prog.read1 = <<[val |-> 4, err |-> "", buf |-> ABCD]>>
    /\ prog.read2 = <<[val |-> 0, err |-> "", buf |-> <<>>]>>
    /\ prog.wait = <<[val |-> 1, err |-> ""]>>

-----------------------------------------------------------------------------
(* task/mod.rs : the exit of a process that has children, open files and a  *)
(* user address space                                                       *)

\* process objects of the exit specification
ExitProcs == 3
\* physical frames of the exit specification
ExitFrames == 6
\* the code sys_exit is called with
ExitCodes == {3}

\* MemorySet::insert_framed_area(start_vpn, end_vpn, perm), alloc[v] the frame
\* frame_alloc hands to map_one for page v: push maps every page and then
\* areas.insert puts the area under its start (in place of an area that was
\* there under the same start)
insert_framed_area(ms, start_vpn, end_vpn, perm, alloc) ==
    [page_table |->
        ms.page_table \cup
        {[vpn |-> v, ppn |-> alloc[v], flags |-> pte_flags(perm)] :
            v \in start_vpn..(end_vpn - 1)},
     areas |->
        {a \in ms.areas : a.start # start_vpn} \cup
        {[start |-> start_vpn, end |-> end_vpn, perm |-> perm,
          data_frames |-> {<<v, alloc[v]>> : v \in start_vpn..(end_vpn - 1)}]}]

\* ThreadUserRes::alloc_user_res: the user stack of thread tid, R | W | U
alloc_user_res(ms, tid, alloc) ==
    insert_framed_area(ms, user_stack_low_vpn(tid), user_stack_high_vpn(tid),
                       MapPermission_R + MapPermission_W + MapPermission_U,
                       alloc)

\* the address space of a program whose ELF file has one code section
TextMemorySet ==
    [page_table |-> {e \in ElfMemorySet.page_table : e.vpn = 0},
     areas |-> {a \in ElfAreas : a.start = 0}]

\* load_sections: the page after the last section (0 without sections)
elf_end(areas) == Max({a.end : a \in areas} \cup {0})

\* the address space Loader::load_elf gives INITPROC: the section in frame 0
\* and the user stack of its main thread in the frames after it
LoadedMemorySet ==
    alloc_user_res(TextMemorySet, 0,
                   [v \in user_stack_low_vpn(0)..(user_stack_high_vpn(0) - 1) |->
                       1 + v - user_stack_low_vpn(0)])

InitLoaded(n) ==
    /\ memory_set = [p \in 0..(n - 1) |->
                       IF p = INITPROC THEN LoadedMemorySet
                       ELSE MemorySet_new_bare]
    /\ frames = [f \in 0..(ExitFrames - 1) |->
                   IF f = 0 THEN [used |-> TRUE, bytes |-> ElfBytes(f)]
                   ELSE [used |-> f <= UserStackPages,
                         bytes |-> ZeroPage(PageLen)]]

InitExit ==
    /\ InitProcsLoaded(ExitProcs, elf_end(TextMemorySet.areas))
    /\ InitLoaded(ExitProcs)
    /\ PipeIdle
    /\ prog = NoProg

NextExit ==
    \/ Boot /\ UNCHANGED <<procRest, memVars>>
    \/ \E p \in DOMAIN procs :
          TimerInterrupt(p) /\ UNCHANGED tickRest
    \/ \E p \in DOMAIN procs : sys_clone(p, TRUE) /\ UNCHANGED procRest
    \/ \E p \in DOMAIN procs, code \in ExitCodes :
          sys_exit(p, code) /\ UNCHANGED procRest
    \/ \E p \in DOMAIN procs : Fault(p) /\ UNCHANGED procRest
    \/ \E p \in DOMAIN procs :
          sys_wait4(p, -1, "null", WNOHANG) /\ UNCHANGED procRest

SpecExit == InitExit /\ [][NextExit]_vars

\* the main thread of process p exits in this step
MainThreadExits(p) ==
    /\ procs[p].state = "live"
    /\ ~procs[p].is_zombie
    /\ procs'[p].is_zombie

\* the code the exiting thread handed to __exit_curr_and_run_next
ExitCodeGiven(p) ==
    CASE exit_hist'[p].how = "exit" -> exit_code_of(exit_hist'[p].arg)
      [] exit_hist'[p].how = "fault" -> -2
      [] OTHER -> -3

\* C11: when the main thread of a process other than INITPROC exits with
\* code c, in the same step (before any other thread runs) the process is a
\* zombie with exit_code c, its children list is empty, every former child is
\* in the children of INITPROC with INITPROC as its parent, its fd table is
\* empty, the user resource of its thread is released and its address space
\* has no area left.
C11_ExitStep ==
    \A p \in 0..(ExitProcs - 1) :
        MainThreadExits(p) =>
            /\ p # INITPROC
            /\ procs'[p].exit_code = ExitCodeGiven(p)
            /\ threads'[p].exit_code = <<ExitCodeGiven(p)>>
            /\ procs'[p].children = <<>>
            /\ \A c \in Range(procs[p].children) :
                  /\ c \in Range(procs'[INITPROC].children)
                  /\ procs'[c].parent = INITPROC
            /\ procs'[p].fd_table = <<>>
            /\ threads'[p].res = <<>>
            /\ memory_set'[p].areas = {}

C11_MainThreadExit == [][C11_ExitStep]_vars

\* C11 witness: a zombie other than INITPROC that had a child, open files and
\* mapped pages when it exited; its orphan now belongs to INITPROC
C11_Witness ==
    \E p \in DOMAIN procs :
        /\ p # INITPROC
        /\ procs[p].state = "live"
        /\ procs[p].is_zombie
        /\ exit_hist[p].orphans # <<>>
        /\ \A c \in Range(exit_hist[p].orphans) :
              procs[c].parent = INITPROC /\ c \in Range(procs[INITPROC].children)
        /\ memory_set[p].page_table # {}
        /\ memory_set[p].areas = {}
        /\ procs[p].fd_table = <<>>
        /\ threads[p].res = <<>>

-----------------------------------------------------------------------------
(* trap/syscall/fs.rs : fcntl; task/loader : exec and close-on-exec *)

\* process objects (the process that calls exec has one thread and exec
\* leaves the other processes alone), frames and descriptors of the exec
\* specification
ExecProcs == 1
ExecFrames == 2
ExecFds == 4

\* sys_fcntl64 commands
F_DUPFD == 0
F_GETFD == 1
F_SETFD == 2
F_DUPFD_CLOEXEC == 1030
\* the calls <<fd, cmd, arg>> user programs make to fcntl (7 is no command)
FcntlCalls ==
    {<<1, F_GETFD, 0>>, <<1, F_SETFD, 1>>, <<1, F_SETFD, 2>>,
     <<1, F_DUPFD, 0>>, <<0, F_DUPFD_CLOEXEC, 3>>, <<3, F_GETFD, 0>>,
     <<1, 7, 0>>}

\* the file object is an InodeFile (Stdin, Stdout and the pipe ends are not)
IsInodeFile(file) == file >= FirstInode

\* File::status: the flags of an InodeFile, OpenFlags::empty() for the others
status(ff, file) == IF IsInodeFile(file) THEN ff[file] ELSE OpenFlags_empty

\* File::set_close_on_exec(bit): flags.set(O_CLOEXEC, bit) on an InodeFile,
\* nothing on the others
set_close_on_exec(ff, file, bit) ==
    IF IsInodeFile(file)
    THEN [ff EXCEPT ![file] =
             IF bit THEN (IF contains(@, O_CLOEXEC) THEN @ ELSE @ + O_CLOEXEC)
             ELSE (IF contains(@, O_CLOEXEC) THEN @ - O_CLOEXEC ELSE @)]
    ELSE ff

\* sys_fcntl64(fd, cmd, arg)
sys_fcntl64(p, fd, cmd, arg) ==
    /\ InUser(p)
    /\ ReturnsToUser
    /\ UNCHANGED <<next_file, open_hist, deviceVars>>
    /\ IF ~fd_open(procs[p].fd_table, fd)
       THEN /\ sysret' = SysRet("fcntl", p, 0, "EBADF")
            /\ UNCHANGED <<procs, write_end, file_flags>>
       ELSE LET file == procs[p].fd_table[fd + 1]
            IN  CASE cmd \in {F_DUPFD, F_DUPFD_CLOEXEC} ->
                       LET a == alloc_fd_from(procs[p].fd_table, arg)
                       IN  /\ a.fd < ExecFds
                           /\ file_flags' =
                                 IF cmd = F_DUPFD_CLOEXEC
                                 THEN set_close_on_exec(file_flags, file, TRUE)
                                 ELSE file_flags
                           /\ procs' = fd_set(procs, p, a.fd_table, a.fd, file)
                           /\ write_end' = IF file = PipeWriteEnd
                                           THEN write_end + 1 ELSE write_end
                           /\ sysret' = [SysRet("fcntl", p, a.fd, "") EXCEPT
                                            !.options = cmd]
                  [] cmd = F_GETFD ->
                       /\ sysret' =
                             [SysRet("fcntl", p,
                                     IF contains(status(file_flags, file), O_CLOEXEC)
                                     THEN 1 ELSE 0, "") EXCEPT
                                 !.options = cmd, !.child = file]
                       /\ UNCHANGED <<procs, write_end, file_flags>>
                  [] cmd = F_SETFD ->
                       /\ file_flags' =
                             set_close_on_exec(file_flags, file, arg % 2 # 0)
                       /\ sysret' = [SysRet("fcntl", p, 0, "") EXCEPT
                                        !.options = cmd]
                       /\ UNCHANGED <<procs, write_end>>
                  [] OTHER ->
                       /\ sysret' = SysRet("fcntl", p, 0, "EINVAL")
                       /\ UNCHANGED <<procs, write_end, file_flags>>

\* MemorySet::recycle_user_pages: the areas below LOW_END leave (their frames
\* are dropped) and the user half of the page table is cleared
recycle_user_pages(ms) ==
    [page_table |-> {e \in ms.page_table : e.vpn >= LOW_END_VPN},
     areas |-> {a \in ms.areas : a.start >= LOW_END_VPN}]

\* the section of the ELF file exec loads
ExecSection == CHOOSE a \in TextMemorySet.areas : TRUE

\* load_sections: the section pushed as a framed area
load_sections(ms, alloc) ==
    insert_framed_area(ms, ExecSection.start, ExecSection.end,
                       ExecSection.perm, alloc)

\* the pages Loader::load maps: the section and the user stack of thread tid
LoadedVpns(tid) ==
    (ExecSection.start..(ExecSection.end - 1)) \cup
    (user_stack_low_vpn(tid)..(user_stack_high_vpn(tid) - 1))

\* the ways frame_alloc can serve Loader::load once fr holds the frames
LoadChoices(fr, tid) ==
    {alloc \in [LoadedVpns(tid) -> {f \in DOMAIN fr : ~fr[f].used}] :
        \A v, w \in LoadedVpns(tid) : alloc[v] = alloc[w] => v = w}

\* the frames after Loader::load: the pages of the section hold the bytes of
\* the file, the stack pages are zero-filled (the argument block init_stack
\* pushes is not kept)
FramesLoaded(fr, alloc) ==
    [f \in DOMAIN fr |->
        IF \E v \in ExecSection.start..(ExecSection.end - 1) : alloc[v] = f
        THEN [used |-> TRUE, bytes |-> ElfBytes(0)]
        ELSE IF \E v \in DOMAIN alloc : alloc[v] = f
        THEN [used |-> TRUE, bytes |-> ZeroPage(PageLen)]
        ELSE fr[f]]

\* mutant: an exec that keeps every descriptor
close_on_exec_none(ff, fd_table) == fd_table

\* Loader::load, the loop over fd_table: a slot whose file has O_CLOEXEC in
\* its status is emptied
close_on_exec(ff, fd_table) ==
    [i \in DOMAIN fd_table |->
        IF fd_table[i] # NoFile /\ contains(status(ff, fd_table[i]), O_CLOEXEC)
        THEN NoFile
        ELSE fd_table[i]]

\* sys_execve returns to user mode without entering the scheduler (the trap
\* context of the thread is Loader::load's to change)
ExecReturnsToUser ==
    /\ sched' = NotDispatched(sched)
    /\ UNCHANGED <<ready_queue, current, pid_allocator, kstack_allocator,
                   exit_hist>>

\* Loader::load for process p, once the file is read and parsed: the user
\* pages are recycled (frame_dealloc outcome taken), the signal handlers are
\* cleared, the close-on-exec descriptors are closed, the section and the
\* user stack are mapped to the frames alloc, the break is set to the end of
\* the section and the trap context is set up for the entry point
Loader_load(p, argc, taken, alloc) ==
    /\ memory_set' =
          [memory_set EXCEPT
              ![p] = alloc_user_res(
                        load_sections(
                           recycle_user_pages(memory_set[p]), alloc),
                        threads[p].res[1], alloc)]
    /\ frames' = FramesLoaded(FramesRecycled(memory_set[p], taken), alloc)
    /\ procs' = [procs EXCEPT
                   ![p].fd_table = close_on_exec(file_flags, @),
                   ![p].heap_start = ExecSection.end,
                   ![p].brk = ExecSection.end * PageLen,
                   ![p].sig_handlers = SignalHandlers_new]
    /\ threads' = [threads EXCEPT
                     ![p].trap_ctx =
                        TrapContext_app_init_context(ExecSection.start, argc)]
    /\ sysret' = [SysRet("execve", p, argc, "") EXCEPT
                     !.before = procs[p].fd_table]

\* sys_execve(pathname, argv, envp) of the single-threaded process p: a bad
\* path or file returns the error and changes nothing; else Loader::load
\* replaces the address space, closes the close-on-exec descriptors and the
\* call returns argc
sys_execve(p, ok, argc) ==
    /\ InUser(p)
    /\ ExecReturnsToUser
    /\ UNCHANGED <<write_end, fileVars>>
    /\ IF ~ok
       THEN /\ sysret' = SysRet("execve", p, 0, "ENOENT")
            /\ UNCHANGED <<procs, threads, memVars>>
       ELSE \E taken \in BOOLEAN :
              \E alloc \in LoadChoices(FramesRecycled(memory_set[p], taken),
                                       threads[p].res[1]) :
                Loader_load(p, argc, taken, alloc)

\* of the ways to hand out frames, the one that takes the lowest free frames
\* in the order of the pages
Ordered(alloc) == \A v, w \in DOMAIN alloc : v < w => alloc[v] < alloc[w]
Lowest(choices) ==
    {alloc \in choices :
        /\ Ordered(alloc)
        /\ \A other \in choices :
              Ordered(other) => \A v \in DOMAIN alloc : alloc[v] <= other[v]}

\* a successful sys_execve whose frames come back to the allocator and are
\* handed out lowest first
sys_execve_lowest(p, argc) ==
    /\ InUser(p)
    /\ ExecReturnsToUser
    /\ UNCHANGED <<write_end, fileVars>>
    /\ \E alloc \in Lowest(LoadChoices(FramesRecycled(memory_set[p], TRUE),
                                        threads[p].res[1])) :
          Loader_load(p, argc, TRUE, alloc)

InitExec ==
    /\ InitProcsLoaded(ExecProcs, elf_end(TextMemorySet.areas))
    /\ memory_set = [p \in 0..(ExecProcs - 1) |->
                       IF p = INITPROC THEN LoadedMemorySet
                       ELSE MemorySet_new_bare]
    /\ frames = [f \in 0..(ExecFrames - 1) |->
                   IF f = 0 THEN [used |-> TRUE, bytes |-> ElfBytes(f)]
                   ELSE [used |-> f <= UserStackPages,
                         bytes |-> ZeroPage(PageLen)]]
    /\ PipeIdle
    /\ prog = NoProg

NextExec ==
    \/ Boot /\ UNCHANGED <<fdRest, memVars, fileVars>>
    \/ \E p \in DOMAIN procs :
          TimerInterrupt(p) /\ UNCHANGED tickRest
    \/ \E p \in DOMAIN procs : sys_close(p, 1) /\ UNCHANGED <<fdRest, memVars>>
    \/ \E p \in DOMAIN procs, flags \in OpenatFlags :
          sys_openat(p, TRUE, flags) /\ UNCHANGED <<fdRest, memVars>>
    \/ \E p \in DOMAIN procs, c \in FcntlCalls :
          sys_fcntl64(p, c[1], c[2], c[3]) /\ UNCHANGED <<fdRest, memVars>>
    \/ \E p \in DOMAIN procs, ok \in BOOLEAN :
          sys_execve(p, ok, 1) /\ UNCHANGED fdRest

SpecExec == InitExec /\ [][NextExec]_vars

\* the step is a successful exec
ExecSucceeds == sysret'.op = "execve" /\ sysret'.err = ""

\* the open-file object has close-on-exec set
CloseOnExecSet(file) ==
    file \in DOMAIN file_flags /\ contains(file_flags[file], O_CLOEXEC)

\* C12: a successful exec empties every descriptor whose open-file object
\* had close-on-exec set and leaves every other descriptor with the same
\* object at the same index.
C12_ExecStep ==
    ExecSucceeds =>
        LET old == procs[sysret'.caller].fd_table
            new == procs'[sysret'.caller].fd_table
        IN  /\ Len(new) = Len(old)
            /\ \A i \in 1..Len(old) :
                  new[i] = IF old[i] # NoFile /\ CloseOnExecSet(old[i])
                           THEN NoFile
                           ELSE old[i]

C12_ExecClosesMarked == [][C12_ExecStep]_vars

\* C12 witness: an exec has just succeeded; it emptied two descriptors of a
\* file that had close-on-exec set and kept the others
C12_Witness ==
    /\ sysret.op = "execve"
    /\ sysret.err = ""
    /\ \E i, j \in 1..Len(sysret.before) :
          /\ i # j
          /\ sysret.before[i] = FirstInode
          /\ sysret.before[j] = FirstInode
          /\ contains(file_flags[FirstInode], O_CLOEXEC)
          /\ procs[sysret.caller].fd_table[i] = NoFile
          /\ procs[sysret.caller].fd_table[j] = NoFile
    /\ \E i \in 1..Len(sysret.before) :
          /\ sysret.before[i] # NoFile
          /\ procs[sysret.caller].fd_table[i] = sysret.before[i]

\* the file object the successful openat of this state put in the fd table
OpenedFile == procs[sysret.caller].fd_table[sysret.val + 1]

\* C13: a descriptor openat returned for a call with O_CLOEXEC has
\* close-on-exec recorded (F_GETFD reports 1 for it and a successful exec
\* empties its slot); one opened without O_CLOEXEC reports 0 and survives
\* exec.
C13_OpenatRecordsCloexec ==
    (sysret.op = "openat" /\ sysret.err = "") =>
        LET asked == contains(open_hist[OpenedFile], O_CLOEXEC)
            getfd == IF contains(status(file_flags, OpenedFile), O_CLOEXEC)
                     THEN 1 ELSE 0
            after == close_on_exec(file_flags,
                                   procs[sysret.caller].fd_table)
        IN  /\ getfd = IF asked THEN 1 ELSE 0
            /\ after[sysret.val + 1] = IF asked THEN NoFile ELSE OpenedFile

-----------------------------------------------------------------------------
(* drivers/src/block/block_cache.rs *)

\* the blocks callers write to, and the buffers and offsets they pass
WriteBlocks == {0, 1}
WriteBufs == {<<>>, [i \in 1..BLOCK_SIZE |-> 1]}
WriteOffsets == {0, BLOCK_SIZE - 1}

\* BlockCache::new(block_id, block_device): the bytes read_block returns
BlockCache_new(block_id, dev) ==
    [cache |-> dev[block_id], block_id |-> block_id, modified |-> FALSE]

\* BlockCache::write(offset, buf)
BlockCache_write(slot, offset, buf) ==
    LET nwrite == Min({BLOCK_SIZE - offset, Len(buf)})
    IN  [slot EXCEPT
            !.modified = IF Len(buf) # 0 THEN TRUE ELSE @,
            !.cache = [i \in 1..BLOCK_SIZE |->
                          IF i > offset /\ i <= offset + nwrite
                          THEN buf[i - offset] ELSE @[i]]]

\* mutant: a sync that writes the slot whether it is modified or not
sync_writes_always(slot) == <<slot.block_id>>

\* BlockCache::sync, the calls of write_block it makes: one, for the block
\* of the slot, if the slot is modified
sync_writes(slot) == IF slot.modified THEN <<slot.block_id>> ELSE <<>>

\* mutant: a sync that clears the flag and writes nothing
write_block_lost(dev, slot) == dev

\* BlockCache::sync, the device side: the block after the write_block call
\* sync makes, if it makes one
write_block(dev, slot) ==
    IF sync_writes(slot) # <<>>
    THEN [dev EXCEPT ![slot.block_id] = slot.cache]
    ELSE dev

\* BlockCache::sync, the slot side
BlockCache_sync(slot) == [slot EXCEPT !.modified = FALSE]

\* Arc::strong_count of a slot object: the clones in the queue and the ones
\* callers hold
strong_count(q, h, obj) ==
    Cardinality({i \in 1..Len(q) : q[i].obj = obj}) + h[obj]

\* the clones callers hold, over all slot objects
RECURSIVE held(_)
held(h) ==
    IF DOMAIN h = {} THEN 0
    ELSE LET o == CHOOSE x \in DOMAIN h : TRUE
         IN  h[o] + held([x \in DOMAIN h \ {o} |-> h[x]])

\* a function without the key k
Without(f, k) == [x \in DOMAIN f \ {k} |-> f[x]]

\* the object Arc::new allocates: one that is not live
NewObj(sl) == Min({o \in 0..Cardinality(DOMAIN sl) : o \notin DOMAIN sl})

\* queue.iter().find(|pair| pair.0 == block_id): its index, 0 for None
find_block(q, block_id) ==
    IF \E i \in 1..Len(q) : q[i].block_id = block_id
    THEN Min({i \in 1..Len(q) : q[i].block_id = block_id})
    ELSE 0

\* mutant: the first slot of the queue is the victim, held or not
find_victim_first(q, h) == IF Len(q) > 0 THEN 1 ELSE 0

\* queue.iter().enumerate().find(|(_, pair)| Arc::strong_count(&pair.1) == 1):
\* its index, 0 for None
find_victim(q, h) ==
    IF \E i \in 1..Len(q) : strong_count(q, h, q[i].obj) = 1
    THEN Min({i \in 1..Len(q) : strong_count(q, h, q[i].obj) = 1})
    ELSE 0

\* mutant: the queue never counts as full
is_full_never(q) == FALSE

\* self.queue.len() == BLOCK_CACHE_SIZE
is_full(q) == Len(q) = BLOCK_CACHE_SIZE

\* mutant: a lookup that never finds the block
cached_index_none(q, block_id) == 0

\* the lookup get_block_cache starts with
cached_index(q, block_id) == find_block(q, block_id)

\* the miss of get_block_cache once the queue has room: the block is loaded
\* into a new slot, pushed back and handed to the caller
load_and_push(q, sl, h, dev, block_id) ==
    LET obj == NewObj(sl)
    IN  /\ held(h) < MaxHandles
        /\ queue' = Append(q, [block_id |-> block_id, obj |-> obj])
        /\ slots' = sl @@ (obj :> BlockCache_new(block_id, dev))
        /\ handles' = h @@ (obj :> 1)
        /\ block_device' = dev

\* get_block_cache(block_id, block_device): a clone of the cached slot; on a
\* miss with a full queue the first slot nobody else holds leaves the queue
\* (its last reference goes, so it is dropped and synced) or the kernel
\* panics; then the block is loaded
get_block_cache(block_id) ==
    /\ ~bc_panic
    /\ UNCHANGED expected
    /\ LET hit == cached_index(queue, block_id)
       IN  IF hit # 0
           THEN /\ held(handles) < MaxHandles
                /\ handles' = [handles EXCEPT ![queue[hit].obj] = @ + 1]
                /\ dev_writes' = <<>>
                /\ UNCHANGED <<queue, slots, block_device, bc_panic>>
           ELSE IF is_full(queue)
           THEN LET idx == find_victim(queue, handles)
                IN  IF idx # 0
                    THEN LET obj == queue[idx].obj
                             q == Remove(queue, idx)
                             gone == strong_count(q, handles, obj) = 0
                             dev == IF gone
                                    THEN write_block(block_device, slots[obj])
                                    ELSE block_device
                             sl == IF gone THEN Without(slots, obj) ELSE slots
                             h == IF gone THEN Without(handles, obj)
                                  ELSE handles
                         IN  /\ load_and_push(q, sl, h, dev, block_id)
                             /\ dev_writes' = IF gone
                                              THEN sync_writes(slots[obj])
                                              ELSE <<>>
                             /\ UNCHANGED bc_panic
                    ELSE /\ bc_panic' = TRUE
                         /\ dev_writes' = <<>>
                         /\ UNCHANGED <<queue, slots, handles, block_device>>
           ELSE /\ load_and_push(queue, slots, handles, block_device,
                                 block_id)
                /\ dev_writes' = <<>>
                /\ UNCHANGED bc_panic

\* a caller that holds a slot writes to it: cache.lock().write(offset, buf)
slot_write(obj, offset, buf) ==
    /\ ~bc_panic
    /\ handles[obj] > 0
    /\ slots' = [slots EXCEPT ![obj] = BlockCache_write(@, offset, buf)]
    /\ expected' = [expected EXCEPT ![slots[obj].block_id] =
                       BlockCache_write(slots[obj], offset, buf).cache]
    /\ dev_writes' = <<>>
    /\ UNCHANGED <<queue, handles, block_device, bc_panic>>

\* a caller that holds a slot syncs it: cache.lock().sync()
slot_sync(obj) ==
    /\ ~bc_panic
    /\ handles[obj] > 0
    /\ block_device' = write_block(block_device, slots[obj])
    /\ dev_writes' = sync_writes(slots[obj])
    /\ slots' = [slots EXCEPT ![obj] = BlockCache_sync(@)]
    /\ UNCHANGED <<queue, handles, bc_panic, expected>>

\* a caller drops its clone; the last reference going drops the BlockCache,
\* which syncs it
handle_drop(obj) ==
    /\ ~bc_panic
    /\ handles[obj] > 0
    /\ UNCHANGED <<queue, bc_panic, expected>>
    /\ IF strong_count(queue, handles, obj) = 1
       THEN /\ block_device' = write_block(block_device, slots[obj])
            /\ dev_writes' = sync_writes(slots[obj])
            /\ slots' = Without(slots, obj)
            /\ handles' = Without(handles, obj)
       ELSE /\ handles' = [handles EXCEPT ![obj] = @ - 1]
            /\ dev_writes' = <<>>
            /\ UNCHANGED <<slots, block_device>>

\* the device after the slots of queue entries 1..n are synced in order
RECURSIVE sync_queue(_, _, _, _)
sync_queue(q, sl, dev, n) ==
    IF n = 0 THEN dev
    ELSE write_block(sync_queue(q, sl, dev, n - 1), sl[q[n].obj])

\* the calls of write_block while the slots of queue entries 1..n are synced
RECURSIVE sync_queue_writes(_, _, _)
sync_queue_writes(q, sl, n) ==
    IF n = 0 THEN <<>>
    ELSE sync_queue_writes(q, sl, n - 1) \o sync_writes(sl[q[n].obj])

\* block_cache_sync_all: every slot of the queue is synced
block_cache_sync_all ==
    /\ ~bc_panic
    /\ block_device' = sync_queue(queue, slots, block_device, Len(queue))
    /\ dev_writes' = sync_queue_writes(queue, slots, Len(queue))
    /\ slots' = [o \in DOMAIN slots |->
                    IF \E i \in 1..Len(queue) : queue[i].obj = o
                    THEN BlockCache_sync(slots[o]) ELSE slots[o]]
    /\ UNCHANGED <<queue, handles, bc_panic, expected>>

cacheRest == <<pipeVars, procVars, memVars, inodeVars, prog, lateVars,
              timerVars>>

InitCache ==
    /\ ProcIdle
    /\ PipeIdle

NextCache ==
    \/ \E b \in BlockIds : get_block_cache(b) /\ UNCHANGED cacheRest
    \/ \E obj \in DOMAIN slots, offset \in WriteOffsets, buf \in WriteBufs :
          /\ slots[obj].block_id \in WriteBlocks
          /\ slot_write(obj, offset, buf)
          /\ UNCHANGED cacheRest
    \/ \E obj \in DOMAIN slots : slot_sync(obj) /\ UNCHANGED cacheRest
    \/ \E obj \in DOMAIN slots : handle_drop(obj) /\ UNCHANGED cacheRest
    \/ block_cache_sync_all /\ UNCHANGED cacheRest

SpecCache == InitCache /\ [][NextCache]_vars

\* the block was written and is not cached: its slot was evicted
Evicted(b) ==
    /\ expected[b] # ZeroPage(BLOCK_SIZE)
    /\ find_block(queue, b) = 0

\* C14: after any sequence of get_block_cache calls the queue of the block
\* cache manager holds at most BLOCK_CACHE_SIZE slots.
C14_QueueBounded == Len(queue) <= BLOCK_CACHE_SIZE

\* C14 witness: the queue is full again after a miss that evicted a slot
C14_Witness ==
    /\ Len(queue) = BLOCK_CACHE_SIZE
    /\ \E b \in BlockIds : Evicted(b)

\* no two entries of the queue have the same block id
OneSlotPerBlock(q) ==
    \A i, j \in 1..Len(q) : q[i].block_id = q[j].block_id => i = j

\* a get_block_cache of a cached block hands out one more clone of the slot
\* the queue has for it and creates nothing
SharedSlot ==
    \A b \in BlockIds :
        (get_block_cache(b) /\ find_block(queue, b) # 0) =>
            LET obj == queue[find_block(queue, b)].obj
            IN  /\ queue' = queue
                /\ slots' = slots
                /\ handles' = [handles EXCEPT ![obj] = @ + 1]

\* C15: the queue has at most one slot per block id, and callers of the
\* same cached block id get the same shared slot.
C15_OneSharedSlot ==
    /\ []OneSlotPerBlock(queue)
    /\ [][SharedSlot]_vars

\* C15 witness: two callers hold the slot of one block
C15_Witness ==
    \E i \in 1..Len(queue) :
        /\ handles[queue[i].obj] = 2
        /\ DOMAIN slots = {queue[j].obj : j \in 1..Len(queue)}

\* on a miss with a full queue: the first slot with strong count 1 leaves and
\* the new slot is pushed back, or every slot is held and the kernel panics
\* with the queue as it was
MissOnFull ==
    \A b \in BlockIds :
        (get_block_cache(b) /\ find_block(queue, b) = 0
           /\ Len(queue) = BLOCK_CACHE_SIZE) =>
            LET free == {i \in 1..Len(queue) :
                            strong_count(queue, handles, queue[i].obj) = 1}
            IN  IF free = {}
                THEN /\ bc_panic'
                     /\ queue' = queue
                     /\ slots' = slots
                ELSE /\ ~bc_panic'
                     /\ Len(queue') = BLOCK_CACHE_SIZE
                     /\ SubSeq(queue', 1, BLOCK_CACHE_SIZE - 1) =
                           Remove(queue, Min(free))
                     /\ queue'[BLOCK_CACHE_SIZE].block_id = b

\* C16: on a miss with a full queue get_block_cache removes only a slot whose
\* strong count is exactly 1, the first such in queue order; if every slot is
\* held it panics and neither grows the queue nor evicts a held slot.
C16_EvictsUnheld == [][MissOnFull]_vars

\* C16 witness: a slot was evicted earlier and now the kernel has panicked
\* with every slot of the full queue held
C16_Witness ==
    /\ bc_panic
    /\ Len(queue) = BLOCK_CACHE_SIZE
    /\ \A i \in 1..Len(queue) : handles[queue[i].obj] > 0
    /\ \E b \in BlockIds : Evicted(b)

\* no slot of the queue is modified
NoDirtySlot == \A i \in 1..Len(queue) : ~slots[queue[i].obj].modified

\* every block of the device holds the bytes last written to it
DeviceUpToDate == \A b \in BlockIds : block_device[b] = expected[b]

\* a miss that loaded block b gave the new slot the bytes written so far
FreshLoad ==
    \A b \in BlockIds :
        (get_block_cache(b) /\ find_block(queue, b) = 0 /\ ~bc_panic') =>
            slots'[queue'[Len(queue')].obj].cache = expected[b]

\* C17: after writes to slots, block_cache_sync_all leaves the device with
\* the last bytes written to each block and no cached slot dirty; a fresh
\* load of a block returns the written bytes.
C17_SyncAll ==
    /\ [][block_cache_sync_all => (DeviceUpToDate' /\ NoDirtySlot')]_vars
    /\ [][FreshLoad]_vars

\* C17 witness: two written blocks are cached, clean and on the device
C17_Witness ==
    /\ NoDirtySlot
    /\ DeviceUpToDate
    /\ \A b \in WriteBlocks :
          /\ find_block(queue, b) # 0
          /\ block_device[b] # ZeroPage(BLOCK_SIZE)

-----------------------------------------------------------------------------
(* memory_set.rs, task/process.rs, trap/syscall/process.rs : brk and mmap *)

\* process objects and frames of the address-space specification
VmProcs == 2
VmFrames == 5

\* MmapProt and MmapFlags (trap/syscall/flags.rs)
PROT_READ == 1
PROT_WRITE == 2
PROT_EXEC == 4
MAP_SHARED == 1
MAP_PRIVATE == 2
MAP_FIXED == 16
MAP_ANONYMOUS == 32
MAP_NORESERVE == 16384

\* MmapProt::from_bits and MmapFlags::from_bits give Some
MmapProt_from_bits_ok(bits) ==
    bits >= 0 /\ bits < 2 * PROT_EXEC
MmapFlags_from_bits_ok(bits) ==
    /\ bits >= 0
    /\ bits < 2 * MAP_NORESERVE
    /\ \A k \in {4, 8, 64, 128, 256, 512, 1024, 2048, 4096, 8192} :
          ~contains(bits, k)

\* From<MmapProt> for MapPermission: the bits shifted left by one, and U
MapPermission_from(prot) == 2 * prot + MapPermission_U

\* VirtAddr::vpn (floor) and VirtAddr::vpn_ceil, VirtPageNum::page_start
vpn_floor(addr) == addr \div PageLen
vpn_ceil(addr) == (addr + PageLen - 1) \div PageLen
page_start(vpn) == vpn * PageLen

\* the arguments <<addr, len, prot, flags, fd, offset>> user programs pass to
\* mmap: anonymous private mappings of one page, of two pages, of less than a
\* page and of more pages than the window has, and the calls that are refused
MmapCalls ==
    {<<0, PageLen, PROT_READ + PROT_WRITE, MAP_PRIVATE + MAP_ANONYMOUS, -1, 0>>,
     <<0, 2 * PageLen, PROT_READ, MAP_PRIVATE + MAP_ANONYMOUS, -1, 0>>,
     <<0, 1, PROT_READ + PROT_WRITE, MAP_PRIVATE + MAP_ANONYMOUS, -1, 0>>,
     <<0, LOW_END_VPN * PageLen, PROT_READ, MAP_PRIVATE + MAP_ANONYMOUS, -1, 0>>,
     <<0, 0, PROT_READ, MAP_PRIVATE + MAP_ANONYMOUS, -1, 0>>,
     <<1, PageLen, PROT_READ, MAP_PRIVATE + MAP_ANONYMOUS, -1, 0>>,
     <<0, PageLen, 2 * PROT_EXEC, MAP_PRIVATE + MAP_ANONYMOUS, -1, 0>>,
     <<0, PageLen, PROT_READ, MAP_SHARED + MAP_ANONYMOUS, -1, 0>>,
     <<0, PageLen, PROT_READ, MAP_PRIVATE + MAP_ANONYMOUS, 3, 0>>,
     <<0, PageLen, PROT_READ, MAP_PRIVATE, 3, 0>>}

\* the arguments user programs pass to brk: 0, the initial break, the byte
\* below it, and breaks in
\* the first, the second and the page MMAP_START is in
BrkArgs ==
    {0, PageLen - 1, PageLen, PageLen + 1, 3 * PageLen, (MMAP_START_VPN + 1) * PageLen}

\* the kernel panics inside the syscall op of process p: nothing runs again
KernelPanic(op, p) ==
    /\ sysret' = SysRet(op, p, 0, "panic")
    /\ current' = NONE
    /\ ready_queue' = <<>>
    /\ UNCHANGED <<procs, threads, pid_allocator, kstack_allocator, sched, exit_hist, memVars>>

\* mutant: a PageTable::map that does not look at the entry
pte_is_valid_never(pt, vpn) == FALSE

\* PageTableEntry::is_valid of the leaf entry of vpn
pte_is_valid(pt, vpn) == \E e \in pt : e.vpn = vpn

\* MapArea::map over vpns goes through: frame_alloc(1).unwrap() gets a frame
\* for every page and the assertion of PageTable::map holds for every page
map_passes(ms, vpns) ==
    /\ \A v \in vpns : ~pte_is_valid(ms.page_table, v)
    /\ Cardinality(FreeFrames) >= Cardinality(vpns)

\* the ways frame_alloc can serve the map_one calls for vpns
MapChoices(vpns) ==
    {alloc \in [vpns -> FreeFrames] :
        \A v, w \in vpns : alloc[v] = alloc[w] => v = w}

\* the frames once the FrameTrackers of ppns are dropped (frame_dealloc, see
\* FramesRecycled) and the frames of alloc are handed out, zero-filled
FramesMapped(ppns, taken, alloc) ==
    [f \in DOMAIN frames |->
        IF \E v \in DOMAIN alloc : alloc[v] = f
        THEN [used |-> TRUE, bytes |-> ZeroPage(PageLen)]
        ELSE IF taken /\ f \in ppns
        THEN [frames[f] EXCEPT !.used = FALSE]
        ELSE frames[f]]

\* the frames of the area insert_framed_area replaces in areas (the one with
\* the same start), whose FrameTrackers are dropped
ReplacedFrames(ms, start_vpn) ==
    {e[2] : e \in UNION {a.data_frames : a \in {b \in ms.areas :
                                                  b.start = start_vpn}}}

\* MapArea::shrink(new_end): the pages from new_end on are unmapped
shrink(ms, area, new_end) ==
    [page_table |-> {e \in ms.page_table :
                        ~(new_end <= e.vpn /\ e.vpn < area.end)},
     areas |-> (ms.areas \ {area}) \cup
               {[area EXCEPT !.end = new_end,
                             !.data_frames = {e \in @ : e[1] < new_end}]}]

\* MapArea::expand(new_end): the pages up to new_end are mapped
expand(ms, area, new_end, alloc) ==
    [page_table |->
        ms.page_table \cup
        {[vpn |-> v, ppn |-> alloc[v], flags |-> pte_flags(area.perm)] :
            v \in area.end..(new_end - 1)},
     areas |-> (ms.areas \ {area}) \cup
               {[area EXCEPT !.end = new_end,
                             !.data_frames =
                                 @ \cup {<<v, alloc[v]>> :
                                            v \in area.end..(new_end - 1)}]}]

\* mutant: a heap the user may only read
heap_perm_read_only == MapPermission_R + MapPermission_U

\* MemorySet::set_user_brk, the permission of the heap area it inserts
heap_perm == MapPermission_R + MapPermission_W + MapPermission_U

\* mutant: a set_user_brk that takes every break for one above the heap start
not_above_heap_never(new_end, heap_start) == FALSE

\* ProcessControlBlockInner::set_user_brk, its first test: the page-rounded
\* end of the request is not above the start of the heap
not_above_heap(new_end, heap_start) == new_end <= heap_start

\* ProcessControlBlockInner::set_user_brk and MemorySet::set_user_brk, called
\* by sys_brk(brk): a break not above the heap start returns the old break;
\* else the heap area is shrunk or expanded, or inserted when there is none,
\* and the new break is returned
sys_brk(p, new_brk) ==
    /\ InUser(p)
    /\ UNCHANGED <<write_end, fileVars>>
    /\ LET new_end == vpn_ceil(new_brk)
           heap_start == procs[p].heap_start
           ms == memory_set[p]
           heaps == {a \in ms.areas : a.start = heap_start}
       IN  IF not_above_heap(new_end, heap_start)
           THEN /\ ReturnsToUser
                /\ sysret' = [SysRet("brk", p, procs[p].brk, "")
                                 EXCEPT !.options = new_brk]
                /\ UNCHANGED <<procs, memVars>>
           ELSE IF heaps # {} /\ Only(heaps).end >= new_end
           THEN \E taken \in BOOLEAN :
                  /\ ReturnsToUser
                  /\ memory_set' =
                        [memory_set EXCEPT
                            ![p] = shrink(ms, Only(heaps), new_end)]
                  /\ frames' =
                        FramesMapped({e[2] : e \in {d \in Only(heaps).data_frames :
                                                      d[1] >= new_end}},
                                     taken, <<>>)
                  /\ procs' = [procs EXCEPT ![p].brk = new_brk]
                  /\ sysret' = [SysRet("brk", p, new_brk, "")
                                   EXCEPT !.options = new_brk]
           ELSE LET from == IF heaps # {} THEN Only(heaps).end ELSE heap_start
                    vpns == from..(new_end - 1)
                IN  IF ~map_passes(ms, vpns)
                    THEN KernelPanic("brk", p)
                    ELSE \E alloc \in MapChoices(vpns) :
                           /\ ReturnsToUser
                           /\ memory_set' =
                                 [memory_set EXCEPT
                                     ![p] = IF heaps # {}
                                            THEN expand(ms, Only(heaps),
                                                        new_end, alloc)
                                            ELSE insert_framed_area(
                                                    ms, heap_start, new_end,
                                                    heap_perm, alloc)]
                           /\ frames' = FramesMapped({}, FALSE, alloc)
                           /\ procs' = [procs EXCEPT ![p].brk = new_brk]
                           /\ sysret' = [SysRet("brk", p, new_brk, "")
                                            EXCEPT !.options = new_brk]

\* areas.values(): the areas in the order of their start
RECURSIVE values(_)
values(areas) ==
    IF areas = {} THEN <<>>
    ELSE LET first == CHOOSE a \in areas : \A b \in areas : a.start <= b.start
         IN  <<first>> \o values(areas \ {first})

\* try_map, the first test of the loop over the areas
above_start(area, start) == area.start > start

\* MemorySet::try_map with fixed = false, the loop over the areas: the start
\* of the range to map, or -1 when the loop ends without one
RECURSIVE try_map_scan(_, _, _)
try_map_scan(as, start, len) ==
    IF as = <<>> THEN -1
    ELSE IF above_start(Head(as), start) /\ start + len <= LOW_END_VPN
    THEN IF start + len <= Head(as).start
         THEN start
         ELSE try_map_scan(Tail(as), Head(as).end, len)
    ELSE try_map_scan(Tail(as), start, len)

\* sys_mmap(addr, len, prot, flags, fd, offset): the checks of the arguments,
\* then for an anonymous private mapping try_map(vpn(addr)..vpn(addr + len),
\* prot.into(), false), which inserts a framed area where the scan found room
sys_mmap(p, addr, len, prot, flags, fd, offset) ==
    /\ InUser(p)
    /\ UNCHANGED <<write_end, fileVars>>
    /\ LET refuse(err) == /\ ReturnsToUser
                          /\ sysret' = SysRet("mmap", p, 0, err)
                          /\ UNCHANGED <<procs, memVars>>
           ms == memory_set[p]
           pages == vpn_floor(addr + len) - vpn_floor(addr)
           start == try_map_scan(values(ms.areas), MMAP_START_VPN, pages)
           vpns == start..(start + pages - 1)
       IN  CASE addr % PageLen # 0 \/ len = 0 -> refuse("EINVAL")
             [] OTHER ->
           CASE ~MmapProt_from_bits_ok(prot) -> refuse("TEMP")
             [] OTHER ->
           CASE ~MmapFlags_from_bits_ok(flags) -> refuse("TEMP")
             [] OTHER ->
           CASE contains(flags, MAP_ANONYMOUS) /\ contains(flags, MAP_SHARED) ->
                  refuse("EPERM")
             [] OTHER ->
           CASE ~contains(flags, MAP_ANONYMOUS) -> refuse("UNSUPPORTED")
             [] OTHER ->
           CASE fd # -1 \/ offset # 0 -> refuse("EPERM")
             [] OTHER ->
           CASE start = -1 -> refuse("ENOMEM")
             [] OTHER ->
           IF ~map_passes(ms, vpns)
           THEN KernelPanic("mmap", p)
           ELSE \E taken \in BOOLEAN :
                  \E alloc \in MapChoices(vpns) :
                    /\ ReturnsToUser
                    /\ memory_set' =
                          [memory_set EXCEPT
                              ![p] = insert_framed_area(
                                        ms, start, start + pages,
                                        MapPermission_from(prot), alloc)]
                    /\ frames' = FramesMapped(ReplacedFrames(ms, start), taken,
                                              alloc)
                    /\ UNCHANGED procs
                    /\ sysret' = [SysRet("mmap", p, page_start(start), "")
                                     EXCEPT !.options = len]

InitVm ==
    /\ InitProcsLoaded(VmProcs, elf_end(TextMemorySet.areas))
    /\ memory_set = [p \in 0..(VmProcs - 1) |->
                       IF p = INITPROC THEN LoadedMemorySet
                       ELSE MemorySet_new_bare]
    /\ frames = [f \in 0..(VmFrames - 1) |->
                   IF f = 0 THEN [used |-> TRUE, bytes |-> ElfBytes(f)]
                   ELSE [used |-> f <= UserStackPages,
                         bytes |-> ZeroPage(PageLen)]]
    /\ PipeIdle
    /\ prog = NoProg

vmRest == <<pipeRest, fileVars, prog>>

NextVm ==
    \/ Boot /\ UNCHANGED <<vmRest, memVars>>
    \/ \E p \in DOMAIN procs : sys_clone(p, TRUE) /\ UNCHANGED vmRest
    \/ \E p \in DOMAIN procs : sys_execve_lowest(p, 1) /\ UNCHANGED fdRest
    \/ \E p \in DOMAIN procs, b \in BrkArgs :
          sys_brk(p, b) /\ UNCHANGED <<pipeRest, prog>>
    \/ \E p \in DOMAIN procs, c \in MmapCalls :
          sys_mmap(p, c[1], c[2], c[3], c[4], c[5], c[6])
            /\ UNCHANGED <<pipeRest, prog>>

SpecVm == InitVm /\ [][NextVm]_vars

\* the pages of an area
VpnRange(a) == a.start..(a.end - 1)

\* the areas of an address space are pairwise disjoint
DisjointAreas(ms) ==
    \A a, b \in ms.areas : a # b => VpnRange(a) \cap VpnRange(b) = {}

\* C18: in every user address space, after any sequence of ELF load, user
\* stack allocation, brk, anonymous mmap, fork and exec, the mapped regions
\* are pairwise disjoint in VPN range.
C18_RegionsDisjoint ==
    \A p \in DOMAIN procs :
        procs[p].state = "live" => DisjointAreas(memory_set[p])

\* C18 witness: a process with its section, a heap, an anonymous mapping and
\* its user stack, all of them with pages
C18_Witness ==
    \E p \in DOMAIN procs :
        /\ procs[p].state = "live"
        /\ \E a \in memory_set[p].areas :
              a.start = procs[p].heap_start /\ a.end > a.start
        /\ \E a \in memory_set[p].areas :
              /\ a.start >= MMAP_START_VPN
              /\ a.end > a.start
              /\ a.end <= user_stack_low_vpn(0)
        /\ \E a \in memory_set[p].areas : a.start = user_stack_low_vpn(0)
        /\ \E a \in memory_set[p].areas : a.start = ExecSection.start

\* the call is an anonymous private mmap(0, len, prot, ..., -1, 0), len > 0
AnonPrivate(c) ==
    /\ c[1] = 0
    /\ c[2] > 0
    /\ MmapProt_from_bits_ok(c[3])
    /\ c[4] = MAP_PRIVATE + MAP_ANONYMOUS
    /\ c[5] = -1
    /\ c[6] = 0

\* the pages [s, s + len) are inside the mmap window and in no area of ms
IsGap(ms, s, len) ==
    /\ s >= MMAP_START_VPN
    /\ s + len <= LOW_END_VPN
    /\ \A a \in ms.areas : (s..(s + len - 1)) \cap VpnRange(a) = {}

\* the starts of the gaps of len pages
Gaps(ms, len) == {s \in MMAP_START_VPN..LOW_END_VPN : IsGap(ms, s, len)}

\* C19 and C20 are stated for calls made while the frame allocator has a
\* frame for every page asked for, the heap ends at or below MMAP_START and
\* every region of the address space holds at least one page.
Roomy(p, len) ==
    /\ Cardinality(FreeFrames) >= vpn_ceil(len)
    /\ \A a \in memory_set[p].areas :
          /\ a.start < MMAP_START_VPN => a.end <= MMAP_START_VPN
          /\ a.start < a.end

\* C19: try_map with fixed = false returns the start of the first gap of at
\* least len pages at or above VPN(MMAP_START), with the new region ending
\* at or below VPN(LOW_END) and overlapping no existing region, earlier
\* anonymous mappings included; with no such gap it returns ENOMEM and leaves
\* the address space as it was.
C19_TryMapStep ==
    \A p \in 0..(VmProcs - 1), c \in MmapCalls :
        (AnonPrivate(c) /\ c[2] % PageLen = 0 /\ Roomy(p, c[2])
           /\ sys_mmap(p, c[1], c[2], c[3], c[4], c[5], c[6])) =>
            LET ms == memory_set[p]
                len == c[2] \div PageLen
            IN  IF Gaps(ms, len) # {}
                THEN /\ sysret'.err = ""
                     /\ sysret'.val = page_start(Min(Gaps(ms, len)))
                     /\ \E a \in memory_set'[p].areas :
                           /\ a.start = Min(Gaps(ms, len))
                           /\ a.end = a.start + len
                     /\ DisjointAreas(memory_set'[p])
                     /\ \A a \in ms.areas : a \in memory_set'[p].areas
                ELSE /\ sysret'.err = "ENOMEM"
                     /\ memory_set' = memory_set

C19_TryMapFirstGap == [][C19_TryMapStep]_vars

\* C20: an anonymous private mmap(0, len, prot, ...) with len > 0, fd -1 and
\* offset 0 returns a page-aligned address A in [MMAP_START, LOW_END), and
\* every byte of [A, A + len) is mapped with the requested permissions plus U
\* and reads zero.
C20_MmapStep ==
    \A p \in 0..(VmProcs - 1), c \in MmapCalls :
        (AnonPrivate(c) /\ Roomy(p, c[2])
           /\ Gaps(memory_set[p], vpn_ceil(c[2])) # {}
           /\ sys_mmap(p, c[1], c[2], c[3], c[4], c[5], c[6])) =>
            /\ sysret'.err = ""
            /\ sysret'.val % PageLen = 0
            /\ sysret'.val >= page_start(MMAP_START_VPN)
            /\ sysret'.val < page_start(LOW_END_VPN)
            /\ \A addr \in sysret'.val..(sysret'.val + c[2] - 1) :
                  \E e \in memory_set'[p].page_table :
                     /\ e.vpn = vpn_floor(addr)
                     /\ e.flags = pte_flags(2 * c[3] + MapPermission_U)
                     /\ frames'[e.ppn].bytes = ZeroPage(PageLen)

C20_MmapZeroed == [][C20_MmapStep]_vars
\* ---- the program break ----

\* the heap area of process p, if it has one
HeapAreas(ms, p) == {a \in ms[p].areas : a.start = procs[p].heap_start}

\* a step by which process p is loaded from an ELF file
Loads(p) == sysret'.op = "execve" /\ sysret'.err = "" /\ sysret'.caller = p

\* a brk call returned whose page-rounded end is not above the heap start
BrkBelowHeap ==
    /\ sysret'.op = "brk"
    /\ sysret'.err = ""
    /\ vpn_ceil(sysret'.options) <= procs[sysret'.caller].heap_start

C21_BrkStep ==
    /\ \A p \in DOMAIN procs :
          (procs[p].state = "live" /\ procs'[p].state = "live" /\ ~Loads(p))
             => procs'[p].heap_start = procs[p].heap_start
    /\ BrkBelowHeap =>
          /\ sysret'.val = procs[sysret'.caller].brk
          /\ procs' = procs
          /\ memory_set' = memory_set

\* C21: for every process, between one ELF load and the next, heap_start
\* never changes and brk >= heap_start * PAGE_SIZE after any sequence of brk
\* calls; a brk request whose page-rounded end is not above heap_start
\* (brk(0) included) leaves brk and the heap region as they were and returns
\* the current brk.
C21_BrkAboveHeap ==
    /\ [](\A p \in DOMAIN procs :
            procs[p].state = "live" =>
               procs[p].brk >= page_start(procs[p].heap_start))
    /\ [][C21_BrkStep]_vars

\* C21 witness: brk(0) returned the break a brk call had set before, with
\* the heap it had made still there
C21_Witness ==
    /\ sysret.op = "brk"
    /\ sysret.options = 0
    /\ sysret.val > page_start(procs[sysret.caller].heap_start)
    /\ sysret.val = procs[sysret.caller].brk
    /\ HeapAreas(memory_set, sysret.caller) # {}
\* scenario S3, for the process that calls brk in this step: X, the break
\* right after load, which brk(0) returns then
S3_X == page_start(procs[sysret'.caller].heap_start)

\* a brk call of scenario S3 returned: brk(new_brk) by a process whose break
\* was old_brk
S3_Brk(new_brk, old_brk) ==
    /\ sysret'.op = "brk"
    /\ sysret'.options = new_brk
    /\ procs[sysret'.caller].brk = old_brk

\* the process is as load left it: no heap yet, nothing mapped where the two
\* pages go, and two frames free
S3_AfterLoad(p) ==
    /\ HeapAreas(memory_set, p) = {}
    /\ map_passes(memory_set[p],
                  procs[p].heap_start..(procs[p].heap_start + 1))

\* every byte of [from, to) is mapped user read-write in ms
MappedUserRW(ms, from, to) ==
    \A addr \in from..(to - 1) :
       \E e \in ms.page_table :
          /\ e.vpn = vpn_floor(addr)
          /\ e.flags = pte_flags(MapPermission_R + MapPermission_W
                                  + MapPermission_U)

\* S3, the growth: brk(X + 2 pages) returns X + 2 pages and maps them
S3_Grows ==
    (S3_Brk(S3_X + 2 * PageLen, S3_X) /\ S3_AfterLoad(sysret'.caller)) =>
       /\ sysret'.err = ""
       /\ sysret'.val = S3_X + 2 * PageLen
       /\ MappedUserRW(memory_set'[sysret'.caller], S3_X,
                       S3_X + 2 * PageLen)

\* C22, as the claim states it: scenario S3 ends with brk(X - 1) returning X
C22_S3BrkBelowReturnsX ==
    [][/\ S3_Grows
       /\ S3_Brk(S3_X - 1, S3_X + 2 * PageLen) => sysret'.val = S3_X]_vars

\* C22: scenario S3: with X the break right after load, brk(X + 2 pages)
\* returns X + 2 pages and makes every byte of [X, X + 2 pages) mapped user
\* read-write, and a following brk(X - 1) returns the break as it is then,
\* X + 2 pages, and leaves the heap mapped.
C22_S3 ==
    [][/\ S3_Grows
       /\ S3_Brk(S3_X - 1, S3_X + 2 * PageLen) =>
             /\ sysret'.err = ""
             /\ sysret'.val = S3_X + 2 * PageLen
             /\ procs' = procs
             /\ memory_set' = memory_set]_vars

\* C22 witness: brk(X - 1) returned X + 2 pages to a process whose heap of
\* two pages is mapped user read-write
C22_Witness ==
    /\ sysret.op = "brk"
    /\ sysret.err = ""
    /\ sysret.options = page_start(procs[sysret.caller].heap_start) - 1
    /\ sysret.val = page_start(procs[sysret.caller].heap_start + 2)
    /\ MappedUserRW(memory_set[sysret.caller],
                    page_start(procs[sysret.caller].heap_start),
                    page_start(procs[sysret.caller].heap_start + 2))

-----------------------------------------------------------------------------
(* kernel/src/memory/page_table.rs : PageTable *)

\* the virtual page numbers the calls are made with: neighbours in one leaf
\* page, and pages apart in the second and in the first index
PtVpns == {0, 1, PtePerPage, PtePerPage * PtePerPage,
           PtePerPage * PtePerPage * PtePerPage - 1}

\* <<ppn, flags>> the map calls are made with
PtMapArgs == {<<PtNodes, MapPermission_R + MapPermission_W>>,
              <<PtNodes + 1,
                MapPermission_R + MapPermission_X + MapPermission_U>>}

\* PageTableEntry::new(ppn, flags): ppn << 10 | flags
PageTableEntry_new(ppn, flags) == ppn * 1024 + flags
\* PageTableEntry::ppn: bits >> 10 (the mask keeps 44 bits, more than any ppn
\* of the model has)
PageTableEntry_ppn(bits) == bits \div 1024
\* PageTableEntry::flags: from_bits_truncate(bits as u8)
PageTableEntry_flags(bits) == bits % 256
\* PageTableEntry::is_valid
PageTableEntry_is_valid(bits) ==
    contains(PageTableEntry_flags(bits), PTEFlags_V)

\* flags | PTEFlags::V
with_V(flags) == IF contains(flags, PTEFlags_V) THEN flags
                 ELSE flags + PTEFlags_V

\* mutant: indexes that leave out the first index of the vpn
indexes_low(vpn) ==
    <<0, (vpn \div PtePerPage) % PtePerPage, vpn % PtePerPage>>

\* VirtPageNum::indexes: the three indexes of a vpn, the most significant
\* first
indexes(vpn) ==
    <<(vpn \div (PtePerPage * PtePerPage)) % PtePerPage,
      (vpn \div PtePerPage) % PtePerPage,
      vpn % PtePerPage>>

\* the frames frame_alloc can hand out for a node of the table t
FreeNodes(t) == (0..(PtNodes - 1)) \ DOMAIN t.mem

\* find_pte_create, one of its first two levels: the entry idx of node ppn,
\* made to point to a fresh zero-filled frame when it is not valid; w.oom says
\* that frame_alloc().unwrap() has panicked
descend(w, idx) ==
    IF w.oom THEN w
    ELSE LET pte == w.t.mem[w.ppn][idx]
         IN  IF PageTableEntry_is_valid(pte)
             THEN [w EXCEPT !.ppn = PageTableEntry_ppn(pte)]
             ELSE IF FreeNodes(w.t) = {}
             THEN [w EXCEPT !.oom = TRUE]
             ELSE LET frame == Min(FreeNodes(w.t))
                  IN  [t |-> [root_ppn |-> w.t.root_ppn,
                              frames |-> Append(w.t.frames, frame),
                              mem |-> [w.t.mem EXCEPT ![w.ppn][idx] =
                                          PageTableEntry_new(frame,
                                                             PTEFlags_V)]
                                      @@ (frame :> EmptyNode)],
                       ppn |-> frame,
                       oom |-> FALSE]

\* PageTable::find_pte_create(vpn): the table with the nodes on the way to
\* the leaf entry of vpn, and the node (ppn) and index of that entry
find_pte_create(t, vpn) ==
    LET idxs == indexes(vpn)
        w == descend(descend([t |-> t, ppn |-> t.root_ppn, oom |-> FALSE],
                             idxs[1]),
                     idxs[2])
    IN  [t |-> w.t, node |-> w.ppn, idx |-> idxs[3], oom |-> w.oom]

\* PageTable::PageTable_find_pte(vpn): the entries on the way to the leaf entry of vpn,
\* as far as they are valid
find_pte_walk(t, vpn) ==
    LET idxs == indexes(vpn)
        e1 == t.mem[t.root_ppn][idxs[1]]
        e2 == t.mem[PageTableEntry_ppn(e1)][idxs[2]]
        e3 == t.mem[PageTableEntry_ppn(e2)][idxs[3]]
    IN  IF ~PageTableEntry_is_valid(e1) THEN <<e1>>
        ELSE IF ~PageTableEntry_is_valid(e2) THEN <<e1, e2>>
        ELSE <<e1, e2, e3>>

\* PageTable::PageTable_find_pte(vpn): the leaf entry of vpn, NONE unless every entry
\* on the way and the leaf itself are valid
PageTable_find_pte(t, vpn) ==
    LET walk == find_pte_walk(t, vpn)
    IN  IF Len(walk) = 3 /\ PageTableEntry_is_valid(walk[3]) THEN walk[3]
        ELSE NONE

\* PageTable::PageTable_translated(vpn): Some(ppn) or None (NONE)
PageTable_translated(t, vpn) ==
    IF PageTable_find_pte(t, vpn) = NONE THEN NONE
    ELSE PageTableEntry_ppn(PageTable_find_pte(t, vpn))

\* the call op(vpn) of the page table ended: err is "" or the panic
PtRet(op, vpn, val, err) == [op |-> op, vpn |-> vpn, val |-> val, err |-> err]

\* the kernel has not panicked in the page table
PtAlive == ptable_ret.err = ""

\* PageTable::map(vpn, ppn, flags)
PageTable_map(vpn, ppn, flags) ==
    /\ PtAlive
    /\ LET r == find_pte_create(ptable, vpn)
       IN  IF r.oom
           THEN /\ ptable' = r.t
                /\ ptable_ret' = PtRet("map", vpn, ppn, "unwrap on None")
           ELSE IF PageTableEntry_is_valid(r.t.mem[r.node][r.idx])
           THEN /\ ptable' = r.t
                /\ ptable_ret' = PtRet("map", vpn, ppn,
                                       "is mapped before mapping")
           ELSE /\ ptable' =
                      [r.t EXCEPT !.mem[r.node][r.idx] =
                          PageTableEntry_new(ppn, with_V(flags))]
                /\ ptable_ret' = PtRet("map", vpn, ppn, "")

\* PageTable::unmap(vpn)
PageTable_unmap(vpn) ==
    /\ PtAlive
    /\ LET r == find_pte_create(ptable, vpn)
       IN  IF r.oom
           THEN /\ ptable' = r.t
                /\ ptable_ret' = PtRet("unmap", vpn, 0, "unwrap on None")
           ELSE IF ~PageTableEntry_is_valid(r.t.mem[r.node][r.idx])
           THEN /\ ptable' = r.t
                /\ ptable_ret' = PtRet("unmap", vpn, 0,
                                       "is invalid before unmapping")
           ELSE /\ ptable' =
                      [r.t EXCEPT !.mem[r.node][r.idx] = PageTableEntry_empty]
                /\ ptable_ret' = PtRet("unmap", vpn, 0, "")

\* PageTable::PageTable_translated(vpn), called by the kernel
PageTable_translate(vpn) ==
    /\ PtAlive
    /\ ptable_ret' = PtRet("translate", vpn, PageTable_translated(ptable, vpn), "")
    /\ UNCHANGED ptable

ptRest == <<pipeVars, procVars, memVars, inodeVars, prog, cacheVars, now,
           timerVars, cellVars>>

InitPt ==
    /\ ProcIdle
    /\ PipeIdle

NextPt ==
    \/ \E vpn \in PtVpns, a \in PtMapArgs :
          PageTable_map(vpn, a[1], a[2]) /\ UNCHANGED ptRest
    \/ \E vpn \in PtVpns : PageTable_unmap(vpn) /\ UNCHANGED ptRest
    \/ \E vpn \in PtVpns : PageTable_translate(vpn) /\ UNCHANGED ptRest

SpecPt == InitPt /\ [][NextPt]_vars

\* the leaf entry of vpn is valid
LeafValid(t, vpn) == PageTable_find_pte(t, vpn) # NONE

\* the call that ended in this step returned (the kernel did not panic)
PtReturned == ptable_ret'.err = ""

\* map(vpn, ppn, flags): it panics on a valid leaf; else PageTable_translated(vpn) is
\* Some(ppn) then, the leaf has V and the flags asked for, and no other vpn
\* translates differently
C23_MapStep ==
    \A vpn \in PtVpns, a \in PtMapArgs :
       PageTable_map(vpn, a[1], a[2]) =>
          /\ LeafValid(ptable, vpn) => ~PtReturned
          /\ PtReturned =>
                /\ PageTable_translated(ptable', vpn) = a[1]
                /\ contains(PageTableEntry_flags(PageTable_find_pte(ptable', vpn)),
                            PTEFlags_V)
                /\ \A f \in {MapPermission_R, MapPermission_W,
                             MapPermission_X, MapPermission_U} :
                      contains(a[2], f) =>
                         contains(PageTableEntry_flags(
                                     PageTable_find_pte(ptable', vpn)), f)
          /\ \A other \in PtVpns \ {vpn} :
                PageTable_translated(ptable', other) = PageTable_translated(ptable, other)

\* unmap(vpn): it panics on an invalid leaf; else PageTable_translated(vpn) is None
\* then, and no other vpn translates differently
C23_UnmapStep ==
    \A vpn \in PtVpns :
       PageTable_unmap(vpn) =>
          /\ ~LeafValid(ptable, vpn) => ~PtReturned
          /\ PtReturned => PageTable_translated(ptable', vpn) = NONE
          /\ \A other \in PtVpns \ {vpn} :
                PageTable_translated(ptable', other) = PageTable_translated(ptable, other)

\* C23: for a page table and any vpn: after map(vpn, ppn, flags),
\* PageTable_translated(vpn) is Some(ppn) and the leaf has V plus at least the requested
\* flags; after unmap(vpn), PageTable_translated(vpn) is None; map or unmap of a
\* different vpn' never changes PageTable_translated(vpn); map on an already valid leaf
\* panics and unmap on an invalid leaf panics.
C23_MapUnmapTranslate == [][C23_MapStep /\ C23_UnmapStep]_vars

\* C23 witness: translate returns the frame a vpn was mapped to while the
\* vpn next to it in the leaf page is not mapped and a vpn of another
\* subtree is mapped to the other frame
C23_Witness ==
    /\ ptable_ret.op = "translate"
    /\ ptable_ret.vpn = 0
    /\ ptable_ret.val = PtNodes
    /\ PageTable_translated(ptable, 1) = NONE
    /\ PageTable_translated(ptable, PtePerPage * PtePerPage) = PtNodes + 1
-----------------------------------------------------------------------------
(* major/src/task/time.rs : sleep timers, checked under SpecSleep *)

\* number of process objects in the runs with sleeping threads
SleepProcs == 3

InitSleep ==
    /\ InitProcs(SleepProcs)
    /\ InitNoPages(SleepProcs)
    /\ PipeIdle
    /\ prog = NoProg

\* INITPROC forks the threads that sleep
NextSleep ==
    \/ Boot /\ UNCHANGED <<procRest, memVars>>
    \/ \E p \in DOMAIN procs : TimerInterrupt(p) /\ UNCHANGED tickRest
    \/ sys_clone(INITPROC, TRUE) /\ UNCHANGED procRest
    \/ \E p \in DOMAIN procs, ms \in SleepArgs :
          sys_sleep(p, ms) /\ UNCHANGED tickRest
    \/ Tick /\ UNCHANGED <<pipeVars, procVars, memVars, inodeVars, cacheVars,
                           ptVars, timerVars, cellVars, prog>>

SpecSleep == InitSleep /\ [][NextSleep]_vars

\* the threads that have an entry in the heap
Sleeping(ts) == {t.thread : t \in ts}

\* the ready queue a step leaves, with the thread it dispatched in front
QueueBeforeDispatch == <<current'>> \o ready_queue'

\* the step is a timer interrupt: the only step besides the first dispatch
\* that completes no syscall, and it stops the current thread
IsTimerInterrupt ==
    /\ current # NONE
    /\ now' = now
    /\ sysret' = NoSysRet

\* a thread asleep is Blocking, not ready and not running, and a thread is
\* asleep until a wake pass ends its sleep
AsleepOffCpu ==
    /\ \A p \in Sleeping(timers) :
          /\ threads[p].thread_status = "Blocking"
          /\ p \notin Range(ready_queue)
          /\ current # p
          /\ p \in DOMAIN sleep_hist
    /\ \A p \in DOMAIN sleep_hist :
          sleep_hist[p].woken_at = NONE <=> p \in Sleeping(timers)

\* sleep(ms) at time now: the caller leaves the CPU Blocking, is not put on
\* the ready queue, and its entry has the deadline now + ms
C24_SleepStep ==
    \A p \in Sleeping(timers') \ Sleeping(timers) :
        /\ current = p
        /\ current' # p
        /\ threads'[p].thread_status = "Blocking"
        /\ p \notin Range(ready_queue')
        /\ sysret'.op = "sleep"
        /\ timers' = timers \cup
                       {[expire_ms |-> now + sysret'.options, thread |-> p]}
        /\ sleep_hist'[p].deadline = now + sysret'.options

\* a wake pass moves exactly the entries due, smallest deadline first, behind
\* the threads that were ready, and leaves the later entries in the heap
C24_WakeStep ==
    IsTimerInterrupt =>
        LET gone == timers \ timers'
            from == Len(ready_queue)
            full == QueueBeforeDispatch
        IN  /\ timers' \subseteq timers
            /\ gone = {t \in timers : t.expire_ms <= now}
            /\ Len(full) = from + Cardinality(gone) + 1
            /\ SubSeq(full, 1, from) = ready_queue
            /\ {full[i] : i \in (from + 1)..(Len(full) - 1)} = Sleeping(gone)
            /\ \A i, j \in (from + 1)..(Len(full) - 1) :
                  i < j => sleep_hist[full[i]].deadline
                             <= sleep_hist[full[j]].deadline
            /\ \A u \in Sleeping(gone) : sleep_hist'[u].woken_at = now

\* the step dispatches thread p
Dispatches(p) ==
    /\ current' = p
    /\ current # p \/ IsTimerInterrupt

\* a thread that slept is dispatched only after a wake pass that ran at or
\* after its deadline
C24_DispatchStep ==
    \A p \in DOMAIN threads :
        Dispatches(p) =>
            /\ p \notin Sleeping(timers')
            /\ p \in DOMAIN sleep_hist' =>
                  /\ sleep_hist'[p].woken_at # NONE
                  /\ sleep_hist'[p].woken_at >= sleep_hist'[p].deadline
                  /\ sleep_hist'[p].woken_at <= now

\* only sys_sleep adds an entry and only a wake pass removes entries
C24_HeapStep ==
    timers' # timers => (IsTimerInterrupt \/ sysret'.op = "sleep")

\* C24: a thread that calls sleep(ms) at time t leaves the CPU with status
\* Blocking, is not placed on the ready queue and is not dispatched again
\* until a wake pass runs at a time now >= t + ms; the wake pass moves exactly
\* the entries whose deadline is <= now, smallest deadline first, and leaves
\* all later entries in the heap.
C24_SleepUntilDue ==
    /\ []AsleepOffCpu
    /\ [][C24_SleepStep /\ C24_WakeStep /\ C24_DispatchStep /\ C24_HeapStep]_vars

\* a wake pass has woken the thread of the sleep with the earlier deadline,
\* which runs again, and has left the entry with the later deadline in the heap
C24_Witness ==
    \E a, b \in DOMAIN sleep_hist :
        /\ sleep_hist[a].deadline < sleep_hist[b].deadline
        /\ sleep_hist[a].woken_at # NONE
        /\ sleep_hist[a].woken_at < sleep_hist[b].deadline
        /\ current = a
        /\ sched.last.thread = a
        /\ b \in Sleeping(timers)

\* place of thread t in the ready queue
Place(t) == CHOOSE i \in 1..Len(ready_queue) : ready_queue[i] = t

\* the sleepers a wake pass has put on the ready queue and that wait there
WokenWaiting ==
    {u \in DOMAIN sleep_hist :
        sleep_hist[u].woken_at # NONE /\ u \in Range(ready_queue)}

\* a timer interrupt arms the next interrupt for a later time, and puts the
\* sleepers it wakes behind the threads already ready and the preempted
\* thread behind all of them
C25_TickStep ==
    IsTimerInterrupt =>
        LET gone == timers \ timers'
            from == Len(ready_queue)
            full == QueueBeforeDispatch
        IN  /\ next_trigger' = set_next_trigger(now)
            /\ next_trigger' > now
            /\ gone = {t \in timers : is_due(t.expire_ms, now)}
            /\ full[Len(full)] = current
            /\ \A i \in 1..(Len(full) - 1) :
                  full[i] \in Range(ready_queue) \cup Sleeping(gone)
            /\ \A u \in Sleeping(gone) :
                  /\ sleep_hist'[u].by = current
                  /\ \E i \in 1..(Len(full) - 1) : full[i] = u

\* while a sleeper woken by a tick waits for the CPU, the thread that tick
\* preempted does not run: it waits behind the sleeper
C25_PreemptedWaits ==
    \A u \in WokenWaiting :
        LET p == sleep_hist[u].by
        IN  /\ current # p
            /\ p \in Range(ready_queue)
            /\ Place(u) < Place(p)
            /\ threads[p].thread_status = "Ready"

\* C25: on a supervisor timer interrupt taken in user mode the handler arms
\* the next timer deadline, moves every due sleeper to the ready queue and
\* only then re-enqueues the preempted thread, so every sleeper woken by that
\* tick is dispatched before the preempted thread runs again.
C25_SleepersBeforePreempted ==
    /\ []C25_PreemptedWaits
    /\ [][C25_TickStep]_vars

\* one tick woke two sleepers: the first runs, the second waits in the ready
\* queue in front of the thread the tick preempted
C25_Witness ==
    \E a \in DOMAIN sleep_hist, b \in WokenWaiting :
        /\ a # b
        /\ current = a
        /\ sleep_hist[a].by = sleep_hist[b].by
        /\ sleep_hist[a].woken_at = sleep_hist[b].woken_at
        /\ ready_queue = <<b, sleep_hist[b].by>>

-----------------------------------------------------------------------------
(* trap/mod.rs : faults and illegal instructions, checked under SpecProc *)

\* the step terminates process p by a fault or an illegal instruction
Killed(p) ==
    /\ exit_hist[p].how = "running"
    /\ exit_hist'[p].how \in {"fault", "illegal"}

\* the exit code the trap handler passes for the trap
TrapCode(how) == IF how = "fault" THEN -2 ELSE -3

\* the thread and the process of p have the exit code of the trap, and the
\* next ready thread is dispatched
C26_KilledAndNextRuns(p) ==
    /\ current = p
    /\ threads'[p].exit_code = <<TrapCode(exit_hist'[p].how)>>
    /\ procs'[p].is_zombie
    /\ procs'[p].exit_code = TrapCode(exit_hist'[p].how)
    /\ ready_queue # <<>>
    /\ current' = ready_queue[1]
    /\ ready_queue' = Tail(ready_queue)
    /\ threads'[current'] =
          [threads[current'] EXCEPT !.thread_status = "Running"]

\* C26, as the claim states it: the state of every process but the one
\* killed is unchanged
C26_OthersUnchanged ==
    [][\A p \in DOMAIN procs : Killed(p) =>
          \A q \in DOMAIN procs \ {p} :
              /\ procs'[q] = procs[q]
              /\ memory_set'[q] = memory_set[q]]_vars

\* a process is killed: the others keep their state, but the children of
\* the process killed go to INITPROC
C26_KillStep ==
    \A p \in DOMAIN procs : Killed(p) =>
        /\ C26_KilledAndNextRuns(p)
        /\ \A q \in DOMAIN procs \ {p} :
              /\ memory_set'[q] = memory_set[q]
              /\ q # current' => threads'[q] = threads[q]
              /\ procs'[q] =
                    IF q \in Range(procs[p].children)
                    THEN [procs[q] EXCEPT !.parent = INITPROC]
                    ELSE IF q = INITPROC
                    THEN [procs[q] EXCEPT
                            !.children = @ \o procs[p].children]
                    ELSE procs[q]

\* a wait4 that returns a child killed by a trap reports the code of the trap
C26_Wait4Reports ==
    (Wait4Returned /\ sysret.child # NONE /\ sysret.err = ""
       /\ sysret.exited[1].how \in {"fault", "illegal"})
    => /\ Wait4TookZombie
       /\ sysret.val = sysret.before[TakenAt].pid
       /\ sysret.wstatus = "valid" =>
             sysret.status = <<TrapCode(sysret.exited[1].how) * 256>>

\* C26: a fault taken in user mode terminates the faulting thread with exit
\* code -2 and an illegal instruction with exit code -3; the state of every
\* other process is unchanged but for the children of the process killed,
\* which become children of INITPROC; the scheduler dispatches the next ready
\* thread, and the wait4 that later returns the process reports that code.
C26_TrapKills ==
    /\ []C26_Wait4Reports
    /\ [][C26_KillStep]_vars

\* the parent's wait4 reported -2 << 8 for a child that a fault killed while
\* it had a child of its own
C26_Witness ==
    /\ Wait4Returned
    /\ sysret.child # NONE
    /\ sysret.exited[1].how = "fault"
    /\ sysret.exited[1].orphans # <<>>
    /\ sysret.status = <<-512>>

-----------------------------------------------------------------------------
(* The borrows of the inner cells of threads and processes *)

\* number of process objects in the runs that follow the borrows
BorrowProcs == 3

\* the inner cell of the main thread of process p (tcb_inner) and of the
\* process (pcb_inner)
ThreadCell(p) == [kind |-> "thread", of |-> p]
ProcessCell(p) == [kind |-> "process", of |-> p]

\* inner() (UPSafeCell::exclusive_access) at a line of the source, and the
\* drop of the RefMut it returned
Borrow(cell, line) == [op |-> "borrow", cell |-> cell, line |-> line]
Release(cell, line) == [op |-> "drop", cell |-> cell, line |-> line]

\* Drop for ThreadUserRes of a thread of process p: dealloc_tid, then
\* dealloc_user_res, each with process.inner() for its body
ThreadUserRes_drop(p) ==
    <<Borrow(ProcessCell(p), 159), Release(ProcessCell(p), 161),
      Borrow(ProcessCell(p), 148), Release(ProcessCell(p), 154)>>

\* __exit_curr_and_run_next, the loop that hands the children to INITPROC:
\* child.inner().parent = ... for each child
RECURSIVE reparent(_)
reparent(children) ==
    IF children = <<>> THEN <<>>
    ELSE <<Borrow(ProcessCell(Head(children)), 88),
           Release(ProcessCell(Head(children)), 88)>> \o reparent(Tail(children))

\* __exit_curr_and_run_next of the main thread of process p with the given
\* children: task.inner() is held while task_inner.res = None drops the
\* ThreadUserRes; then the block of tid == 0
exit_curr_and_run_next_cells(p, children) ==
    <<Borrow(ThreadCell(p), 65)>>
    \o ThreadUserRes_drop(p)
    \o <<Release(ThreadCell(p), 71), Borrow(ProcessCell(p), 80)>>
    \o (IF p # INITPROC
        THEN <<Borrow(ProcessCell(INITPROC), 86)>> \o reparent(children)
             \o <<Release(ProcessCell(INITPROC), 91)>>
        ELSE <<>>)
    \o <<Borrow(ThreadCell(p), 99), Release(ThreadCell(p), 103),
         Release(ProcessCell(p), 104), Borrow(ProcessCell(p), 107),
         Release(ProcessCell(p), 111)>>

\* sys_waittid(tid) called by the main thread of process p: thread.inner(),
\* then process.inner(); a process has its main thread only, so the call
\* returns TEMP for its own tid 0 or for a tid thread_ref does not find, and
\* the return drops the two in the reverse order
sys_waittid_cells(p, tid) ==
    LET return == IF tid = 0 THEN 21 ELSE 23
    IN  <<Borrow(ThreadCell(p), 17), Borrow(ProcessCell(p), 18),
          Release(ProcessCell(p), return), Release(ThreadCell(p), return)>>

\* sys_gettid called by the main thread of process p
sys_gettid_cells(p) ==
    <<Borrow(ThreadCell(p), 7), Release(ThreadCell(p), 7)>>

\* the children a process may have when it exits
ChildLists(p) ==
    LET others == (0..(BorrowProcs - 1)) \ {p, INITPROC}
    IN  {<<>>} \cup {<<c>> : c \in others}
        \cup {<<c, d>> : <<c, d>> \in {e \in others \X others : e[1] # e[2]}}

\* a trap enters the kernel function fn, whose borrows and drops are events
EnterKernel(fn, events) ==
    /\ kpath.fn = "none"
    /\ kpath' = [fn |-> fn, events |-> events, pc |-> 1]
    /\ UNCHANGED borrowed

\* UPSafeCell::exclusive_access: the next event of the function is a borrow
\* (RefCell::borrow_mut panics if the cell is borrowed)
exclusive_access ==
    /\ kpath.pc <= Len(kpath.events)
    /\ kpath.events[kpath.pc].op = "borrow"
    /\ kpath.events[kpath.pc].cell \notin Range(borrowed)
    /\ borrowed' = Append(borrowed, kpath.events[kpath.pc].cell)
    /\ kpath' = [kpath EXCEPT !.pc = @ + 1]

\* the next event of the function is the drop of a RefMut
RefMut_drop ==
    /\ kpath.pc <= Len(kpath.events)
    /\ kpath.events[kpath.pc].op = "drop"
    /\ borrowed' = SelectSeq(borrowed,
                             LAMBDA c : c # kpath.events[kpath.pc].cell)
    /\ kpath' = [kpath EXCEPT !.pc = @ + 1]

\* the function returns to user mode or switches to the idle loop
LeaveKernel ==
    /\ kpath.fn # "none"
    /\ kpath.pc > Len(kpath.events)
    /\ kpath' = NoPath
    /\ UNCHANGED borrowed

borrowRest == <<pipeVars, procVars, memVars, inodeVars, prog, cacheVars,
                ptVars, now, timerVars>>

InitBorrow ==
    /\ ProcIdle
    /\ PipeIdle

NextBorrow ==
    \/ \E p \in 0..(BorrowProcs - 1) : \E children \in ChildLists(p) :
          EnterKernel("__exit_curr_and_run_next",
                      exit_curr_and_run_next_cells(p, children))
            /\ UNCHANGED borrowRest
    \/ \E p \in 0..(BorrowProcs - 1), tid \in 0..1 :
          EnterKernel("sys_waittid", sys_waittid_cells(p, tid))
            /\ UNCHANGED borrowRest
    \/ \E p \in 0..(BorrowProcs - 1) :
          EnterKernel("sys_gettid", sys_gettid_cells(p))
            /\ UNCHANGED borrowRest
    \/ exclusive_access /\ UNCHANGED borrowRest
    \/ RefMut_drop /\ UNCHANGED borrowRest
    \/ LeaveKernel /\ UNCHANGED borrowRest

SpecBorrow == InitBorrow /\ [][NextBorrow]_vars

\* C27: no kernel code path borrows a thread's inner cell and then, while
\* still holding it, borrows the inner cell of the thread's owning process:
\* whenever both are held, the process cell was taken first.
C27_ProcessCellFirst ==
    \A i, j \in 1..Len(borrowed) :
        (borrowed[i].kind = "thread" /\ borrowed[j].kind = "process"
           /\ borrowed[i].of = borrowed[j].of) => j < i

-----------------------------------------------------------------------------
(* trap/syscall/fs.rs : sys_writev *)

\* File::readable: Stdin, the read end of a pipe, an InodeFile opened with
\* O_RDONLY (OpenFlags::read_write; sys_openat is called with these flags)
File_readable(file) == file \in {Stdin, PipeReadEnd} \/ IsInodeFile(file)

\* File::writable: Stdout (the default table has it in slots 1 and 2) and
\* the write end of a pipe
File_writable(file) == file \in {Stdout, Stderr, PipeWriteEnd}

\* prepare_io(fd, is_read): the file of the slot if it is open and readable
\* (is_read) or writable (not is_read), else EBADF; no file here is a
\* directory
prepare_io_file(fd_table, fd, is_read) ==
    IF /\ fd_open(fd_table, fd)
       /\ \/ is_read /\ File_readable(fd_table[fd + 1])
          \/ ~is_read /\ File_writable(fd_table[fd + 1])
    THEN [err |-> "", file |-> fd_table[fd + 1]]
    ELSE [err |-> "EBADF", file |-> NoFile]

\* File::write of a buffer of len bytes: the bytes written, or -1 for a
\* panic: Stdout prints the buffer, Stdin panics ("Cannot write to stdin!"),
\* the read end of a pipe fails assert!(self.writable()), an InodeFile is
\* todo!()
File_write(file, len) ==
    IF file \in {Stdout, Stderr} THEN len ELSE -1

\* sys_writev, the loop over the buffers (given by their lengths): the total
\* written, or -1 for a panic
RECURSIVE writev_loop(_, _, _)
writev_loop(file, iov, total_write) ==
    IF iov = <<>>
    THEN total_write
    ELSE LET nwrite == File_write(file, Head(iov))
         IN  IF nwrite = -1 THEN -1
             ELSE IF nwrite = 0 THEN total_write
             ELSE writev_loop(file, Tail(iov), total_write + nwrite)

\* what sys_writev was called with, for sysret
WritevRet(p, fd, iov, val, err) ==
    [SysRet("writev", p, val, err) EXCEPT !.options = fd, !.before = iov]

\* sys_writev(fd, iovec, vlen), iovec and the buffers readable user memory
\* of the lengths iov: the file comes from prepare_io(fd, true)
sys_writev(p, fd, iov) ==
    /\ InUser(p)
    /\ UNCHANGED <<procs, threads, pid_allocator, kstack_allocator, exit_hist, write_end>>
    /\ LET io_file == prepare_io_file(procs[p].fd_table, fd, TRUE)
           total == writev_loop(io_file.file, iov, 0)
       IN  IF io_file.err # ""
           THEN /\ sysret' = WritevRet(p, fd, iov, 0, io_file.err)
                /\ sched' = NotDispatched(sched)
                /\ UNCHANGED <<ready_queue, current>>
           ELSE IF total = -1
           THEN /\ sysret' = WritevRet(p, fd, iov, 0, "panic")
                /\ current' = NONE
                /\ ready_queue' = <<>>
                /\ UNCHANGED sched
           ELSE /\ sysret' = WritevRet(p, fd, iov, total, "")
                /\ sched' = NotDispatched(sched)
                /\ UNCHANGED <<ready_queue, current>>

\* descriptors and buffer lengths writev is called with
IovFds == {0, 1, 2, 3, 7}
IovArgs == {<<>>, <<1>>, <<2, 1>>, <<1, 0, 2>>}

NextIov ==
    \/ Boot /\ UNCHANGED <<fdRest, memVars, fileVars>>
    \/ \E p \in DOMAIN procs : TimerInterrupt(p) /\ UNCHANGED tickRest
    \/ \E p \in DOMAIN procs :
          sys_clone(p, TRUE) /\ UNCHANGED <<fdRest, fileVars>>
    \/ \E p \in DOMAIN procs, ok \in BOOLEAN :
          sys_openat(p, ok, O_RDONLY) /\ UNCHANGED <<fdRest, memVars>>
    \/ \E p \in DOMAIN procs, fd \in CloseFds :
          sys_close(p, fd) /\ UNCHANGED <<fdRest, memVars>>
    \/ \E p \in DOMAIN procs, fd \in IovFds, iov \in IovArgs :
          sys_writev(p, fd, iov) /\ UNCHANGED <<fdRest, memVars, fileVars>>

SpecIov == InitFd /\ [][NextIov]_vars

\* the bytes of the buffers up to the first buffer that transfers nothing
RECURSIVE Transferred(_)
Transferred(iov) ==
    IF iov = <<>> \/ Head(iov) = 0 THEN 0
    ELSE Head(iov) + Transferred(Tail(iov))

\* the descriptor of the latest writev is open for writing
WritevFdWritable ==
    LET fd_table == procs[sysret.caller].fd_table
    IN  /\ sysret.options < Len(fd_table)
        /\ fd_table[sysret.options + 1] \in {Stdout, Stderr, PipeWriteEnd}

\* C28: sys_writev on a descriptor that is open for writing writes the
\* buffers in order, stops at the first buffer whose transfer is 0 bytes and
\* returns the total bytes written; it returns EBADF only when fd is out of
\* range, empty, or not open for writing.
C28_Writev ==
    sysret.op = "writev" =>
        /\ WritevFdWritable =>
              /\ sysret.err = ""
              /\ sysret.val = Transferred(sysret.before)
        /\ sysret.err = "EBADF" => ~WritevFdWritable

\* ---------------------------------------------------------------------
\* task/resource.rs : pids and kernel stacks, checked under SpecProc
\* ---------------------------------------------------------------------

\* utils::config::ADDR_END, the last address of the kernel's address space
\* (scaled with PageLen)
ADDR_END == 63

\* config KERNEL_STACK_SIZE, scaled to two pages
KERNEL_STACK_SIZE == 2 * PageLen

\* kernel_stack_addr : <<low, high>> of the kernel stack with this id; one
\* guard page lies below each stack, the topmost page is left unused
kernel_stack_addr(kstack_id) ==
    LET high == ADDR_END - PageLen
                  - kstack_id * (KERNEL_STACK_SIZE + PageLen) + 1
        low == high - KERNEL_STACK_SIZE
    IN  <<low, high>>

\* the process objects that were created and not yet reaped
UnReaped == {p \in DOMAIN procs : procs[p].state = "live"}

\* the thread objects that exist (each holds a KernelStack)
LiveThreads == {p \in DOMAIN threads : threads[p].kernel_stack # <<>>}

HeldPids == {procs[p].pid : p \in UnReaped}

HeldStacks == {threads[p].kernel_stack[1] : p \in LiveThreads}

NoDuplicates(seq) ==
    \A i, j \in 1..Len(seq) : i # j => seq[i] # seq[j]

\* the ranges of two kernel stacks do not meet and a page lies between them
GuardedApart(a, b) ==
    \/ a[2] + PageLen <= b[1]
    \/ b[2] + PageLen <= a[1]

C29_DistinctIds ==
    /\ \A p, q \in UnReaped : p # q => procs[p].pid # procs[q].pid
    /\ \A p, q \in LiveThreads :
          p # q =>
            /\ threads[p].kernel_stack # threads[q].kernel_stack
            /\ GuardedApart(kernel_stack_addr(threads[p].kernel_stack[1]),
                            kernel_stack_addr(threads[q].kernel_stack[1]))

\* an id waiting in recycled is there once, was handed out before and has no
\* holder
Released(a, holders) ==
    /\ NoDuplicates(a.recycled)
    /\ Range(a.recycled) \cap holders = {}
    /\ \A id \in Range(a.recycled) \cup holders : id < a.current

C29_ReleasedOnce ==
    /\ Released(pid_allocator, HeldPids)
    /\ Released(kstack_allocator, HeldStacks)

\* a step that creates a process hands it a pid and a kernel stack nobody
\* holds
C29_AllocStep ==
    \A c \in DOMAIN procs :
        (c \notin UnReaped /\ procs'[c].state = "live") =>
            /\ procs'[c].pid \notin HeldPids
            /\ threads'[c].kernel_stack # <<>>
            /\ threads'[c].kernel_stack[1] \notin HeldStacks

\* a step that lengthens a recycled list appends one id, whose holder the
\* step dropped
ReleaseStep(a, b, dropped) ==
    Len(b.recycled) > Len(a.recycled) =>
        /\ Len(b.recycled) = Len(a.recycled) + 1
        /\ SubSeq(b.recycled, 1, Len(a.recycled)) = a.recycled
        /\ b.recycled[Len(b.recycled)] \in dropped
        /\ b.recycled[Len(b.recycled)] \notin Range(a.recycled)

C29_DropStep ==
    /\ ReleaseStep(pid_allocator, pid_allocator',
                   {procs[p].pid : p \in {q \in UnReaped :
                                            procs'[q].state = "dropped"}})
    /\ ReleaseStep(kstack_allocator, kstack_allocator',
                   {threads[p].kernel_stack[1] :
                      p \in {q \in LiveThreads :
                               threads'[q].kernel_stack = <<>>}})

\* C29: at every moment distinct live threads hold distinct kernel-stack
\* ids, so that their kernel stacks lie apart with a guard page between
\* them, and distinct un-reaped processes hold distinct pids; an id is
\* handed out again only after its previous holder was dropped, and it is
\* never released twice
C29_IdsHeldOnce ==
    /\ [](C29_DistinctIds /\ C29_ReleasedOnce)
    /\ [][C29_AllocStep /\ C29_DropStep]_vars

\* a process was reaped and the pid and kernel stack it held were handed out
\* again: three process objects have existed, two ids were ever made
C29_Witness ==
    /\ \E d \in DOMAIN procs : procs[d].state = "dropped"
    /\ \E p \in UnReaped \ {INITPROC} :
          /\ sysret.op = "clone"
          /\ sysret.val = procs[p].pid
          /\ threads[p].kernel_stack = <<procs[p].pid>>
    /\ pid_allocator = [current |-> 2, recycled |-> <<>>]
    /\ kstack_allocator = [current |-> 2, recycled |-> <<>>]

\* ---------------------------------------------------------------------
\* task/mod.rs, task/processor.rs : the switch to the idle loop and back,
\* checked under SpecSwitch, where the suspension of a thread and the next
\* iteration of the idle loop are two steps
\* ---------------------------------------------------------------------

SwitchProcs == 4

\* a suspension that leaves the thread in the processor's current slot
suspend_curr_not_taken(p, cont) ==
    /\ current = p
    /\ current' = p
    /\ threads' = [threads EXCEPT ![p].thread_status = "Ready",
                                  ![p].cont = cont]
    /\ ready_queue' = add_task(ready_queue, p)
    /\ sched' = Enqueued(NotDispatched(sched), ready_queue, p)

\* __suspend_curr_and_run_next of the current thread p up to the __switch of
\* schedule(): take_curr_task empties the current slot, the thread is marked
\* Ready and pushed to the back of the ready queue; the processor is then in
\* the idle loop (run_tasks), and p continues at cont once dispatched
suspend_curr(p, cont) ==
    /\ current = p
    /\ current' = NONE
    /\ threads' = [threads EXCEPT ![p].thread_status = "Ready",
                                  ![p].cont = cont]
    /\ ready_queue' = add_task(ready_queue, p)
    /\ sched' = Enqueued(NotDispatched(sched), ready_queue, p)

\* sys_yield up to the switch to the idle loop
sys_yield_suspend(p) ==
    /\ InUser(p)
    /\ suspend_curr(p, UserCont)
    /\ sysret' = SysRet("yield", p, 0, "")
    /\ UNCHANGED <<procs, pid_allocator, kstack_allocator, exit_hist,
                   write_end>>

InitSwitch ==
    /\ InitProcs(SwitchProcs)
    /\ InitNoPages(SwitchProcs)
    /\ PipeIdle
    /\ prog = NoProg

\* Boot is an iteration of the idle loop: it runs whenever no thread is
\* current
NextSwitch ==
    \/ Boot /\ UNCHANGED <<procRest, memVars>>
    \/ \E p \in DOMAIN procs :
          sys_yield_suspend(p) /\ UNCHANGED <<procRest, memVars>>
    \/ \E p \in DOMAIN procs : sys_clone(p, TRUE) /\ UNCHANGED procRest

SpecSwitch == InitSwitch /\ [][NextSwitch]_vars

\* the step suspends thread p
Suspends(p) == current = p /\ current' # p

\* the thread suspended leaves the current slot empty, is Ready and stands
\* at the tail of the ready queue, behind the threads that were ready
C30_SuspendStep ==
    \A p \in DOMAIN procs :
        Suspends(p) =>
            /\ current' = NONE
            /\ threads'[p].thread_status = "Ready"
            /\ ready_queue' = Append(ready_queue, p)

\* with the current slot empty the processor is in the idle loop: the only
\* step is the dispatch of the thread at the head of the ready queue
C30_IdleStep ==
    current = NONE =>
        /\ ready_queue # <<>>
        /\ current' = Head(ready_queue)
        /\ ready_queue' = Tail(ready_queue)
        /\ threads'[current'].thread_status = "Running"

\* a thread becomes the current one only by a dispatch of the idle loop
C30_ContinueStep ==
    \A p \in DOMAIN procs :
        (current # p /\ current' = p) =>
            /\ current = NONE
            /\ Head(ready_queue) = p
            /\ threads'[p].thread_status = "Running"
            /\ p \notin Range(ready_queue')

\* a thread in the ready queue is Ready and not current; the current thread
\* is Running and not in the ready queue
C30_OffCpuWhileReady ==
    /\ \A p \in Range(ready_queue) :
          /\ threads[p].thread_status = "Ready"
          /\ current # p
    /\ current # NONE => threads[current].thread_status = "Running"

\* C30: suspend_current_and_run_next sets the current thread's status to
\* Ready, appends it to the tail of the ready queue, leaves the processor's
\* current slot empty and switches to the idle loop; the thread continues
\* after the call only when the idle loop dispatches it again, and then its
\* status is Running and it is the current thread
C30_SuspendAndResume ==
    /\ []C30_OffCpuWhileReady
    /\ [][C30_SuspendStep /\ C30_IdleStep /\ C30_ContinueStep]_vars

\* INITPROC, which only a yield takes off the processor, was dispatched
\* again after another thread ran in between, and continues after its yield
C30_Witness ==
    /\ InUser(INITPROC)
    /\ threads[INITPROC].thread_status = "Running"
    /\ sched.last.thread = INITPROC
    /\ sched.last.others >= 1
    /\ sysret.op = "none"

\* ---------------------------------------------------------------------
\* task/mod.rs : what an exited thread keeps, checked under SpecExit
\* ---------------------------------------------------------------------

\* the thread objects whose thread has called __exit_curr_and_run_next
ExitedThreads ==
    {p \in DOMAIN threads :
        threads[p].exit_code # <<>> /\ threads[p].kernel_stack # <<>>}

\* the pages of the user stack of thread tid that ms still maps or owns
UserStackLeft(ms, tid) ==
    {e.vpn : e \in {x \in ms.page_table :
                      /\ user_stack_low_vpn(tid) <= x.vpn
                      /\ x.vpn < user_stack_high_vpn(tid)}}
    \cup {a.start : a \in {x \in ms.areas :
                             x.start = user_stack_low_vpn(tid)}}

\* the step in which a thread exits records its code, releases its user
\* resource and leaves the thread neither current nor ready, with its kernel
\* stack still allocated
C31_ExitStep ==
    \A p \in DOMAIN procs :
        MainThreadExits(p) =>
            /\ threads[p].res # <<>>
            /\ threads'[p].exit_code = <<ExitCodeGiven(p)>>
            /\ threads'[p].res = <<>>
            /\ UserStackLeft(memory_set'[p], threads[p].res[1]) = {}
            /\ current' # p
            /\ p \notin Range(ready_queue')
            /\ threads'[p].kernel_stack = threads[p].kernel_stack
            /\ threads'[p].kernel_stack # <<>>
            /\ kstack_allocator' = kstack_allocator

\* an exited thread is never current, ready or asleep, has no user resource
\* and its kernel stack is not with the allocator
C31_ExitedOff ==
    \A p \in ExitedThreads :
        /\ current # p
        /\ p \notin Range(ready_queue)
        /\ p \notin Sleeping(timers)
        /\ threads[p].res = <<>>
        /\ threads[p].kernel_stack[1] \notin Range(kstack_allocator.recycled)

\* a kernel stack goes back to the allocator only when the process of its
\* thread is reaped, by another thread, after the thread has exited
C31_StackDropStep ==
    \A p \in DOMAIN threads :
        (threads[p].kernel_stack # <<>> /\ threads'[p].kernel_stack = <<>>) =>
            /\ p \in ExitedThreads
            /\ procs[p].is_zombie
            /\ procs'[p].state = "dropped"
            /\ current # p
            /\ current # NONE
            /\ p \in Range(procs[current].children)

\* C31: after a thread calls exit_current_and_run_next(code) its exit code
\* is recorded and its user resource (tid and user stack) released, and the
\* thread is never put on the ready queue or made current again; its TCB and
\* kernel stack stay allocated until the reaping of its process drops them,
\* so the kernel stack is never freed while the exiting thread runs on it
C31_ExitedThreadKeepsStack ==
    /\ []C31_ExitedOff
    /\ [][C31_ExitStep /\ C31_StackDropStep]_vars

\* a thread exited, others ran, and wait4 has just reaped its process and
\* with it the kernel stack, while another exited thread still holds its own
C31_Witness ==
    /\ sysret.op = "wait4"
    /\ sysret.child # NONE
    /\ threads[sysret.child].exit_code # <<>>
    /\ threads[sysret.child].kernel_stack = <<>>
    /\ kstack_allocator.recycled # <<>>
    /\ ExitedThreads # {}

\* ---------------------------------------------------------------------
\* sleep timers under fairness, checked under FairSpecSleep
\* ---------------------------------------------------------------------

\* the steps that happen without a program asking for them: the first
\* dispatch and a timer interrupt while a thread runs in user mode
SleepKernelStep ==
    \/ Boot /\ UNCHANGED <<procRest, memVars>>
    \/ \E p \in DOMAIN procs : TimerInterrupt(p) /\ UNCHANGED tickRest

\* the clock advancing
SleepClockStep ==
    Tick /\ UNCHANGED <<pipeVars, procVars, memVars, inodeVars, cacheVars,
                        ptVars, timerVars, cellVars, prog>>

\* time advances (up to MaxTime) and timer interrupts keep arriving
FairSpecSleep ==
    SpecSleep /\ WF_vars(SleepKernelStep) /\ WF_vars(SleepClockStep)

\* thread p sleeps until a time the clock reaches
DueSleeper(p) ==
    \E t \in timers : t.thread = p /\ t.expire_ms <= MaxTime

\* the idle loop has found the ready queue empty while a thread sleeps
IdleWithSleepers ==
    /\ current = NONE
    /\ ready_queue = <<>>
    /\ timers # {}

\* C32: under advancing time and fair scheduling every thread that called
\* sleep(ms) is eventually moved back to the ready queue and resumes after
\* the call, whatever the other threads are doing, and the idle loop never
\* finds the ready queue empty while some thread is still sleeping
C32_SleepersResume ==
    /\ []~IdleWithSleepers
    /\ \A p \in 0..(SleepProcs - 1) :
          DueSleeper(p) ~> (InUser(p) /\ p \notin Sleeping(timers))

\* ---------------------------------------------------------------------
\* filesystem/src/pipe.rs : one writer, one reader, end of file; checked
\* under FairSpecDrain
\* ---------------------------------------------------------------------

\* the thread that writes and the thread that reads
DrainWriter == CHOOSE t \in Writers : \A u \in Writers : t <= u
DrainReader == NWriters + 1

\* the writer has made its call to write
HasWritten == nextByte > 1

\* a read has returned 0
ReadZero == ret.op = "read" /\ ret.val = 0

\* the writer calls write once, with a buffer of 1 or of 33 bytes
DrainWrite ==
    /\ ~HasWritten
    /\ \E n \in WriteLens : SysWritePipe(DrainWriter, n)

\* the writer, suspended in write, is dispatched again
DrainResumeWrite == ResumeWrite(DrainWriter)

\* the reader calls read again unless its last read returned 0
DrainRead ==
    /\ ~ReadZero
    /\ \E n \in ReadLens : SysReadPipe(DrainReader, n)

DrainResumeRead == ResumeRead(DrainReader)

\* a descriptor of the write end is duplicated before the write (by a dup
\* or a fork)
DrainDup == ~HasWritten /\ io[DrainWriter].op = "none" /\ DupWriteFd

\* after the write has returned the descriptors of the write end are closed
DrainClose == HasWritten /\ io[DrainWriter].op = "none" /\ CloseWriteFd

drainRest == <<procVars, memVars, fileVars, prog>>

NextDrain ==
    \/ DrainWrite /\ UNCHANGED drainRest
    \/ DrainResumeWrite /\ UNCHANGED drainRest
    \/ DrainRead /\ UNCHANGED drainRest
    \/ DrainResumeRead /\ UNCHANGED drainRest
    \/ DrainDup /\ UNCHANGED drainRest
    \/ DrainClose /\ UNCHANGED drainRest

SpecDrain == InitPipe /\ [][NextDrain]_vars

\* both threads are dispatched again and again and go on with their
\* programs, and the descriptors get closed
FairSpecDrain ==
    /\ SpecDrain
    /\ WF_vars((DrainWrite \/ DrainResumeWrite) /\ UNCHANGED drainRest)
    /\ WF_vars((DrainRead \/ DrainResumeRead) /\ UNCHANGED drainRest)
    /\ WF_vars(DrainClose /\ UNCHANGED drainRest)

\* both threads are out of their calls, the reader after a read of 0; the
\* reader got the bytes of the writer's buffer, all of them and in order
Drained ==
    /\ ReadZero
    /\ \A t \in PipeThreads : io[t].op = "none"
    /\ HasWritten
    /\ delivered = [i \in 1..(nextByte - 1) |-> i]

\* C33: under fair scheduling, if a writer thread writes n bytes to a pipe
\* (n may exceed the 32-byte ring) and afterwards every descriptor of the
\* write end is closed, while a reader thread reads until a read returns 0,
\* then both threads terminate and the reader has received exactly the n
\* bytes in order
C33_PipeDrains ==
    /\ [](ReadZero => Drained)
    /\ <>[]Drained

\* the reader got 33 bytes through the ring of 32 and then a read of 0
C33_Witness ==
    /\ Drained
    /\ Len(delivered) = RING_BUFFER_SIZE + 1
    /\ write_end = 0

\* ---------------------------------------------------------------------
\* task/loader/mod.rs, trap/syscall/process.rs : an exec that fails,
\* checked under SpecExecErr
\* ---------------------------------------------------------------------

\* what the path given to exec names: no file, a file whose read fails, a
\* file that is no ELF file, an executable
ExecFiles == {"missing", "unreadable", "not_elf", "elf"}

\* Loader::load up to Elf::parse: the error of open_inode, of read_all or of
\* the parse, "" when all three succeed
Loader_check(file) ==
    CASE file = "missing" -> "ENOENT"
      [] file = "unreadable" -> "ENOEXEC"
      [] file = "not_elf" -> "ENOEXEC"
      [] OTHER -> ""

\* mutant: an exec that recycles the user pages and clears the signal
\* handlers before it looks at the file
sys_execve_path_clears_first(p, file, argc) ==
    IF Loader_check(file) = ""
    THEN sys_execve_lowest(p, argc)
    ELSE /\ InUser(p)
         /\ ReturnsToUser
         /\ sysret' = [SysRet("execve", p, 0, Loader_check(file)) EXCEPT
                          !.status = <<file>>]
         /\ procs' = [procs EXCEPT ![p].sig_handlers = SignalHandlers_new]
         /\ memory_set' = [memory_set EXCEPT ![p] = recycle_user_pages(@)]
         /\ UNCHANGED <<frames, write_end, fileVars>>

\* sys_execve(pathname, argv, envp) where pathname names file: process.exec
\* passes the error of Loader::load on, which has changed nothing by then;
\* for an executable the load goes through, its frames handed out lowest first
sys_execve_path(p, file, argc) ==
    IF Loader_check(file) = ""
    THEN sys_execve_lowest(p, argc)
    ELSE /\ InUser(p)
         /\ ReturnsToUser
         /\ sysret' = [SysRet("execve", p, 0, Loader_check(file)) EXCEPT
                          !.status = <<file>>]
         /\ UNCHANGED <<procs, memVars, write_end, fileVars>>

\* sys_sigaction(signum, act, null): EINVAL for a number that is no signal
\* and for SIGKILL and SIGSTOP; else the action is set unless act is null
\* (act is <<>> for null, <<handler>> else)
sys_sigaction(p, signum, act) ==
    /\ InUser(p)
    /\ ReturnsToUser
    /\ UNCHANGED <<memVars, write_end, fileVars>>
    /\ IF signum \notin Signals \/ signum \in {SIGKILL, SIGSTOP}
       THEN /\ sysret' = SysRet("sigaction", p, 0, "EINVAL")
            /\ UNCHANGED procs
       ELSE /\ sysret' = SysRet("sigaction", p, 0, "")
            /\ procs' = IF act = <<>> THEN procs
                        ELSE [procs EXCEPT ![p].sig_handlers[signum] = act[1]]

\* the calls to sigaction: a handler at an address of the section, no new
\* action, and the signal whose action cannot be set
SigactionCalls ==
    {<<SIGINT, <<PageLen>>>>, <<SIGINT, <<>>>>, <<SIGKILL, <<PageLen>>>>}

\* the argument counts of the calls to exec
ExecArgcs == {1, 2}

\* process objects and frames of the runs with failing execs: the section,
\* the user stack and a page of heap
ExecErrProcs == 1
ExecErrFrames == 3

InitExecErr ==
    /\ InitProcsLoaded(ExecErrProcs, elf_end(TextMemorySet.areas))
    /\ memory_set = [p \in 0..(ExecErrProcs - 1) |->
                       IF p = INITPROC THEN LoadedMemorySet
                       ELSE MemorySet_new_bare]
    /\ frames = [f \in 0..(ExecErrFrames - 1) |->
                   IF f = 0 THEN [used |-> TRUE, bytes |-> ElfBytes(f)]
                   ELSE [used |-> f <= UserStackPages,
                         bytes |-> ZeroPage(PageLen)]]
    /\ PipeIdle
    /\ prog = NoProg

NextExecErr ==
    \/ Boot /\ UNCHANGED <<fdRest, memVars, fileVars>>
    \/ \E p \in DOMAIN procs : sys_close(p, 1) /\ UNCHANGED <<fdRest, memVars>>
    \/ \E p \in DOMAIN procs, flags \in OpenatFlags :
          sys_openat(p, TRUE, flags) /\ UNCHANGED <<fdRest, memVars>>
    \/ \E p \in DOMAIN procs :
          sys_fcntl64(p, 1, F_SETFD, 1) /\ UNCHANGED <<fdRest, memVars>>
    \/ \E p \in DOMAIN procs :
          sys_brk(p, 2 * PageLen) /\ UNCHANGED <<pipeRest, prog>>
    \/ \E p \in DOMAIN procs, c \in SigactionCalls :
          sys_sigaction(p, c[1], c[2]) /\ UNCHANGED <<pipeRest, prog>>
    \/ \E p \in DOMAIN procs, file \in ExecFiles, argc \in ExecArgcs :
          sys_execve_path(p, file, argc) /\ UNCHANGED fdRest

SpecExecErr == InitExecErr /\ [][NextExecErr]_vars

\* the step is an exec of a path that cannot be opened, read or parsed
ExecOfBadFile ==
    /\ sysret'.op = "execve"
    /\ sysret'.status # <<>>

\* such an exec returns the error and leaves the process as it was
C34_FailStep ==
    ExecOfBadFile =>
        LET p == sysret'.caller
        IN  /\ sysret'.err \in {"ENOENT", "ENOEXEC"}
            /\ sysret'.status[1] \in ExecFiles \ {"elf"}
            /\ memory_set'[p] = memory_set[p]
            /\ frames' = frames
            /\ procs'[p].brk = procs[p].brk
            /\ procs'[p].heap_start = procs[p].heap_start
            /\ procs'[p].fd_table = procs[p].fd_table
            /\ file_flags' = file_flags
            /\ procs'[p].sig_handlers = procs[p].sig_handlers
            /\ threads'[p].trap_ctx = threads[p].trap_ctx

\* an exec that returns no error was given an executable
C34_SuccessStep ==
    (sysret'.op = "execve" /\ sysret'.err = "") => sysret'.status = <<>>

GetFd(ff, fd_table, fd) ==
    IF contains(status(ff, fd_table[fd + 1]), O_CLOEXEC) THEN 1 ELSE 0

\* fcntl(fd, F_SETFD, b) has returned: F_GETFD on fd now gives the low bit of b
C35_SetStep ==
    \A p \in DOMAIN procs, c \in FcntlCalls :
        (/\ c[2] = F_SETFD
         /\ sys_fcntl64(p, c[1], c[2], c[3])
         /\ sysret'.err = "")
        => GetFd(file_flags', procs'[p].fd_table, c[1]) = c[3] % 2

\* fcntl(fd, F_DUPFD_CLOEXEC, min) has returned: the new descriptor is not
\* below min, F_GETFD gives 1 on it and on fd what it gave before
C35_DupStep ==
    \A p \in DOMAIN procs, c \in FcntlCalls :
        (/\ c[2] = F_DUPFD_CLOEXEC
         /\ sys_fcntl64(p, c[1], c[2], c[3])
         /\ sysret'.err = "")
        => /\ sysret'.val >= c[3]
           /\ sysret'.val # c[1]
           /\ procs[p].fd_table[c[1] + 1] = procs'[p].fd_table[c[1] + 1]
           /\ GetFd(file_flags', procs'[p].fd_table, sysret'.val) = 1
           /\ GetFd(file_flags', procs'[p].fd_table, c[1])
                 = GetFd(file_flags, procs[p].fd_table, c[1])

\* C35: close-on-exec behaves as a per-descriptor flag for every kind of open
\* descriptor (inode file, pipe end, stdin, stdout): F_SETFD with b followed
\* by F_GETFD returns the low bit of b, and F_DUPFD_CLOEXEC with min returns a
\* new descriptor >= min on which F_GETFD returns 1 while F_GETFD on the
\* original descriptor is unchanged
C35_CloexecPerDescriptor == [][C35_SetStep /\ C35_DupStep]_vars

\* the part of C35 about F_SETFD alone, and the part about F_DUPFD_CLOEXEC alone
C35_SetThenGet == [][C35_SetStep]_vars
C35_DupCloexec == [][C35_DupStep]_vars

\* ---------------------------------------------------------------------------
\* task/processor.rs : the status of queued and running threads, checked
\* under SpecSleep
\* ---------------------------------------------------------------------------

\* the threads the ready queue holds
Queued == Range(ready_queue)

\* the ready queue after a dispatch is the queue the idle loop fetched from
\* without its head, and the dispatch changed the status of the head only: a
\* thread still queued had its present status when the idle loop fetched
C36_QueuedAreReady ==
    \A t \in Queued : threads[t].thread_status = "Ready"

\* the thread in the processor's current slot is Running
C36_CurrentIsRunning ==
    current # NONE => threads[current].thread_status = "Running"

\* C36: whenever the idle loop is about to fetch a thread, every thread held
\* in the ready queue has status Ready, and whenever a thread is in the
\* processor's current slot its status is Running
C36_StatusMatchesPlace == C36_QueuedAreReady /\ C36_CurrentIsRunning

\* ---------------------------------------------------------------------
\* task/mod.rs, task/time.rs : where a thread is held when the scheduler is
\* entered, checked under SpecIdle, where the entry to the scheduler and the
\* next iteration of the idle loop are two steps
\* ---------------------------------------------------------------------

\* number of process objects in the runs of SpecIdle
IdleProcs == 3

\* mutant: a sleep that also puts the thread on the ready queue
sys_sleep_block_enqueues(p, ms) ==
    /\ InUser(p)
    /\ timers' = add_timer(timers, now + ms, p)
    /\ sleep_hist' = Asleep(sleep_hist, p, now + ms)
    /\ current' = NONE
    /\ threads' = [threads EXCEPT ![p].thread_status = "Blocking",
                                  ![p].cont = UserCont]
    /\ sched' = Enqueued(NotDispatched(sched), ready_queue, p)
    /\ sysret' = [SysRet("sleep", p, 0, "") EXCEPT !.options = ms]
    /\ ready_queue' = add_task(ready_queue, p)
    /\ UNCHANGED <<procs, pid_allocator, kstack_allocator, exit_hist,
                   write_end, next_trigger>>

\* sys_sleep(ms) up to the switch to the idle loop: add_timer, then
\* __block_curr_and_run_next takes the thread out of the current slot and
\* marks it Blocking
sys_sleep_block(p, ms) ==
    /\ InUser(p)
    /\ timers' = add_timer(timers, now + ms, p)
    /\ sleep_hist' = Asleep(sleep_hist, p, now + ms)
    /\ current' = NONE
    /\ threads' = [threads EXCEPT ![p].thread_status = "Blocking",
                                  ![p].cont = UserCont]
    /\ sched' = NotDispatched(sched)
    /\ sysret' = [SysRet("sleep", p, 0, "") EXCEPT !.options = ms]
    /\ UNCHANGED <<ready_queue, procs, pid_allocator, kstack_allocator,
                   exit_hist, write_end, next_trigger>>

\* trap_handler, SupervisorTimer, up to the switch to the idle loop:
\* set_next_trigger, check_timer, then __suspend_curr_and_run_next takes the
\* preempted thread out of the current slot and queues it behind the woken
TimerInterrupt_suspend(p) ==
    /\ InUser(p)
    /\ next_trigger' = set_next_trigger(now)
    /\ \E w \in check_timer(TimerPass(timers, ready_queue, sched, <<>>), now) :
          /\ timers' = w.timers
          /\ current' = NONE
          /\ threads' = [threads EXCEPT ![p].thread_status = "Ready",
                                        ![p].cont = UserCont]
          /\ ready_queue' = add_task(w.ready_queue, p)
          /\ sched' = Enqueued(NotDispatched(w.sched), w.ready_queue, p)
          /\ sleep_hist' = Woken(Forgotten(sleep_hist, p), w.woken, now, p)
    /\ sysret' = NoSysRet
    /\ UNCHANGED <<procs, pid_allocator, kstack_allocator, exit_hist, write_end>>

\* sys_exit(code) up to the switch to the idle loop: take_curr_task, the
\* thread keeps its exit code and drops its user resource, the process is
\* torn down
sys_exit_schedule(p, code) ==
    /\ InUser(p)
    /\ p # INITPROC
    /\ current' = NONE
    /\ threads' = [threads EXCEPT ![p].exit_code = <<exit_code_of(code)>>,
                                  ![p].res = <<>>]
    /\ sched' = NotDispatched(sched)
    /\ UNCHANGED ready_queue
    /\ exit_process(p, exit_code_of(code), "exit", code)

InitIdle ==
    /\ InitProcs(IdleProcs)
    /\ InitNoPages(IdleProcs)
    /\ PipeIdle
    /\ prog = NoProg

\* Boot is an iteration of the idle loop: it runs whenever no thread is
\* current and a thread is ready; the clock runs until the first sleeper is due
NextIdle ==
    \/ Boot /\ UNCHANGED <<procRest, memVars>>
    \/ \E p \in DOMAIN procs :
          sys_yield_suspend(p) /\ UNCHANGED <<procRest, memVars>>
    \/ sys_clone(INITPROC, TRUE) /\ UNCHANGED procRest
    \/ \E p \in DOMAIN procs :
          sys_sleep_block(p, Min(SleepArgs)) /\ UNCHANGED tickRest
    \/ \E p \in DOMAIN procs : TimerInterrupt_suspend(p) /\ UNCHANGED tickRest
    \/ \E p \in DOMAIN procs :
          sys_exit_schedule(p, 0) /\ UNCHANGED procRest
    \/ now < Min(SleepArgs) /\ Tick
       /\ UNCHANGED <<pipeVars, procVars, memVars, inodeVars, cacheVars,
                    ptVars, timerVars, cellVars, prog>>

SpecIdle == InitIdle /\ [][NextIdle]_vars

\* how many entries of the ready queue hold thread t, and how many entries
\* of the timer heap
TimesQueued(t) == Count(ready_queue, t)
TimesSleeping(t) == Cardinality({e \in timers : e.thread = t})

\* the thread is held at most once by the current slot, the ready queue and
\* the timer heap together
C37_HeldOnce ==
    \A t \in DOMAIN threads :
        (IF current = t THEN 1 ELSE 0) + TimesQueued(t) + TimesSleeping(t) <= 1

\* a step that takes the current thread off the processor enters the idle
\* loop with the current slot empty
C37_EntryStep == (current # NONE /\ current' # current) => current' = NONE

\* C37: at every scheduler entry (each time control is back in the idle
\* loop), each thread is in at most one of: the processor's current slot, the
\* ready queue, the sleep-timer heap; no thread appears twice in the ready
\* queue or twice in the timer heap, and the current slot is empty
C37_OnePlacePerThread == []C37_HeldOnce /\ [][C37_EntryStep]_vars

\* the idle loop is entered while one thread sleeps, two are ready, one of
\* them woken by the timer interrupt that has just preempted the other
C37_Witness ==
    /\ current = NONE
    /\ timers # {}
    /\ Len(ready_queue) = 2
    /\ \E t \in Range(ready_queue) :
          t \in DOMAIN sleep_hist /\ sleep_hist[t].woken_at # NONE

\* ---------------------------------------------------------------------
\* memory/src/memory_set.rs : page table and framed areas, checked under
\* SpecExit
\* ---------------------------------------------------------------------

\* the processes whose address space exists: created and not yet reaped
\* (a zombie keeps its MemorySet until wait4 drops the process)
HasAddressSpace(p) == procs[p].state = "live"

\* the valid leaf entries of the user half of a page table
UserPtes(ms) == {e \in ms.page_table : e.vpn < LOW_END_VPN}

\* a user page has a valid leaf entry iff it lies in a framed area, and the
\* entry then has the frame the area owns for the page and the area's
\* permissions
PtesMatchAreas(ms) ==
    /\ \A v \in 0..(LOW_END_VPN - 1) :
          (\E e \in UserPtes(ms) : e.vpn = v) <=> v \in VpnsOf(ms)
    /\ \A e \in UserPtes(ms) :
          \E a \in ms.areas :
             /\ <<e.vpn, e.ppn>> \in a.data_frames
             /\ e.flags = pte_flags(a.perm)

\* no valid user entry points to a frame the allocator has back
NoPteToFreeFrame(ms) == \A e \in UserPtes(ms) : frames[e.ppn].used

C38_LiveMatch ==
    \A p \in DOMAIN procs :
        (HasAddressSpace(p) /\ ~procs[p].is_zombie) =>
            PtesMatchAreas(memory_set[p])

\* C38: in every user address space that still exists (a zombie's included),
\* a user page has a valid leaf PTE iff it lies in a framed region of that
\* address space, and then the PTE points to the frame the region owns for
\* the page with the region's permissions; no valid user PTE points to a
\* frame that has been returned to the frame allocator
C38_PtesFollowAreas ==
    \A p \in DOMAIN procs :
        HasAddressSpace(p) =>
            /\ PtesMatchAreas(memory_set[p])
            /\ NoPteToFreeFrame(memory_set[p])

\* ---------------------------------------------------------------------
\* task/process.rs, task/mod.rs : the process tree, checked under SpecExit
\* ---------------------------------------------------------------------

\* the slots <<q, i>> of all children lists that hold process c
ChildSlots(c) ==
    {s \in UNION {{<<q, i>> : i \in 1..Len(procs[q].children)} :
                     q \in DOMAIN procs} :
        procs[s[1]].children[s[2]] = c}

\* inner.parent.upgrade(): the parent while its process object exists
\* (sys_getppid unwraps the result)
parent_upgrade(c) ==
    IF procs[c].parent # NONE /\ procs[procs[c].parent].state = "live"
    THEN <<procs[c].parent>>
    ELSE <<>>

\* the processes reached from the set S by following parent n times or less
RECURSIVE Ancestors(_, _)
Ancestors(S, n) ==
    IF n = 0 \/ S = {}
    THEN {}
    ELSE LET up == {procs[q].parent : q \in S} \ {NONE}
         IN  up \cup Ancestors(up, n - 1)

\* the process is held by one children list, that of the process its parent
\* reference upgrades to
C39_OneParent ==
    \A c \in UnReaped \ {INITPROC} :
        /\ Cardinality(ChildSlots(c)) = 1
        /\ parent_upgrade(c) # <<>>
        /\ \A s \in ChildSlots(c) : s[1] = parent_upgrade(c)[1]

\* no process is among its own ancestors
C39_NoCycle ==
    \A c \in UnReaped : c \notin Ancestors({c}, Cardinality(DOMAIN procs))

\* C39: at every syscall boundary, every process other than init that has
\* not been reaped appears in exactly one process's children list, and its
\* parent weak reference upgrades to exactly that process (so getppid never
\* fails for it); fork, exit-time reparenting and wait4 preserve this, and
\* no process is its own ancestor
C39_ProcessTree == C39_OneParent /\ C39_NoCycle

\* a process whose parent exited is a child of INITPROC now, next to the
\* zombie that was its parent
C39_Witness ==
    \E c, z \in UnReaped \ {INITPROC} :
        /\ procs[z].is_zombie
        /\ c \in Range(exit_hist[z].orphans)
        /\ ~procs[c].is_zombie
        /\ procs[c].parent = INITPROC
        /\ Len(procs[INITPROC].children) = 2

\* ---------------------------------------------------------------------
\* drivers/src/block/block_cache.rs : the cache as seen by its readers,
\* checked under SpecCache
\* ---------------------------------------------------------------------

\* the bytes a reader gets for block b: BlockCache::read on the slot
\* get_block_cache returns, which is the cached slot or one loaded by
\* BlockCache::new from the device
ReadThrough(b) ==
    IF find_block(queue, b) # 0
    THEN slots[queue[find_block(queue, b)].obj].cache
    ELSE BlockCache_new(b, block_device).cache

\* reading any block gives the bytes last written to it through the cache,
\* or the device's original bytes
C40_ReadsLastWritten == \A b \in BlockIds : ReadThrough(b) = expected[b]

\* the slot get_block_cache hands out holds the bytes last written to the
\* block, on a hit and on a miss with or without an eviction
C40_GetStep ==
    \A b \in BlockIds :
        (get_block_cache(b) /\ ~bc_panic') =>
            /\ find_block(queue', b) # 0
            /\ slots'[queue'[find_block(queue', b)].obj].cache = expected[b]
            /\ expected' = expected

\* a slot object that is discarded while modified has been written to the
\* device
C40_EvictStep ==
    \A obj \in DOMAIN slots \ DOMAIN slots' :
        slots[obj].modified =>
            /\ block_device'[slots[obj].block_id] = slots[obj].cache
            /\ slots[obj].block_id \in Range(dev_writes')

\* every write_block call of the step is for the block of a slot that was
\* modified, and a block no call names keeps its bytes on the device
C40_CleanStep ==
    /\ \A i \in 1..Len(dev_writes') :
          \E obj \in DOMAIN slots :
             /\ slots[obj].block_id = dev_writes'[i]
             /\ slots[obj].modified
    /\ \A b \in BlockIds \ Range(dev_writes') :
          block_device'[b] = block_device[b]

\* C40: the block cache together with the device is observationally
\* equivalent to the device alone: for any sequence of get_block_cache, slot
\* read, slot write, eviction and sync operations, reading a block through
\* the cache returns the bytes most recently written to that block through
\* the cache (or the device's original content if never written), because
\* evicting a dirty slot writes it to the device before the slot is
\* discarded, and a slot that is not dirty is never written to the device
C40_CacheIsTransparent ==
    /\ []C40_ReadsLastWritten
    /\ [][C40_GetStep /\ C40_EvictStep /\ C40_CleanStep]_vars

\* a miss has just evicted the modified slot of a written block, which went
\* to the device, while the other written block, evicted and loaded again
\* earlier, is cached and clean
C40_Witness ==
    /\ dev_writes # <<>>
    /\ \E b \in WriteBlocks :
          /\ Evicted(b)
          /\ dev_writes = <<b>>
          /\ block_device[b] = expected[b]
    /\ \E c \in WriteBlocks :
          /\ find_block(queue, c) # 0
          /\ ~slots[queue[find_block(queue, c)].obj].modified
          /\ slots[queue[find_block(queue, c)].obj].cache # ZeroPage(BLOCK_SIZE)
    /\ Len(queue) = BLOCK_CACHE_SIZE

====
